---- MODULE Spec2Model ----
(***************************************************************************)
(* Healthmate-CoachAI request handling (src/healthmate_coach_ai/agent.py): *)
(* payload validation, the event relay of invoke_health_coach and the      *)
(* two-task fan-in loop of the entrypoint invoke.                          *)
(*                                                                         *)
(* Python strings are TLA+ strings, Python None is the value None, a dict  *)
(* is a function from its keys.  The text of an event is a sequence of     *)
(* pieces (literal parts and interpolated values of the f-string).         *)
(*                                                                         *)
(* Every action is one step of one coroutine between two suspension        *)
(* points of the asyncio loop: the handler (the async generator invoke),   *)
(* the agent task (invoke_health_coach) and the queue.get() task.          *)
(***************************************************************************)
EXTENDS Integers, Sequences, FiniteSets, TLC

\* Number of raw events the agent's stream delivers in one run.
MaxStream == 2

\* len(session_id_from_payload) < 33
MinSessionLen == 33

\* len(memory_id) < 10
MinMemoryIdLen == 10

None == "<None>"

\* an empty dict
EmptyDict == [k \in {} |-> None]

\* the outcome of a call that raises, where the call returns a string
Raised == "<raised>"

Truthy(v) == v # None /\ v # ""

\* str.strip() of the strings the model draws leaves nothing exactly for these.
Whitespace == {"", " ", "                                 "}

IsBlank(s) == s \in Whitespace

SeqRange(s) == {s[i] : i \in DOMAIN s}

---------------------------------------------------------------------------
(* Inbound payloads *)

S32 == "healthmate-chat-1700000000-abcde"
S33 == "healthmate-chat-1700000000-abcdef"
B33 == "                                 "

\* header.payload.signature with payload = base64url({"sub":"u1"}), unpadded
T_U1 == "h.eyJzdWIiOiJ1MSJ9.s"
\* payload = base64url({"sub":"u2"}): a second user
T_U2 == "h.eyJzdWIiOiJ1MiJ9.s"
\* the same payload under a header that makes the token 59 characters long
T_U2L == "hhhhhhhhhhhhhhhhhhhhhhhhhhhhhhhhhhhhhhhh.eyJzdWIiOiJ1MiJ9.s"
\* payload = base64url({"sub":""})
T_EMPTYSUB == "h.eyJzdWIiOiIifQ.s"
\* payload = base64url({"iss":"x"})
T_NOSUB == "h.eyJpc3MiOiJ4In0.s"
\* two segments only
T_TWOSEG == "h.eyJzdWIiOiJ1MSJ9"
\* payload = base64url("notjson")
T_NOTJSON == "h.bm90anNvbg.s"
\* four segments
T_FOURSEG == "h.eyJzdWIiOiJ1MSJ9.s.x"

\* the second segments of the tokens, character by character
SEG_U1 ==
    <<"e", "y", "J", "z", "d", "W", "I", "i", "O", "i", "J", "1", "M", "S", "J", "9">>
SEG_U2 ==
    <<"e", "y", "J", "z", "d", "W", "I", "i", "O", "i", "J", "1", "M", "i", "J", "9">>
SEG_EMPTYSUB ==
    <<"e", "y", "J", "z", "d", "W", "I", "i", "O", "i", "I", "i", "f", "Q">>
SEG_NOSUB ==
    <<"e", "y", "J", "p", "c", "3", "M", "i", "O", "i", "J", "4", "I", "n", "0">>
SEG_NOTJSON ==
    <<"b", "m", "9", "0", "a", "n", "N", "v", "b", "g">>

Absent == "<absent>"

JwtChoices == {Absent, "", T_U1, T_EMPTYSUB, T_NOSUB, T_TWOSEG, T_NOTJSON, T_FOURSEG}
SessionChoices == {Absent, "", S32, S33, B33}
TimezoneChoices == {Absent, "UTC"}
LanguageChoices == {Absent, "en"}
PromptChoices == {Absent, "", "hi"}

Field(k, v) == IF v = Absent THEN EmptyDict ELSE (k :> v)

\* payload: its prompt (Absent when it has no such key) and
\* payload["sessionState"]["sessionAttributes"] with the keys that are present
Payloads ==
    { [prompt |-> p,
       attrs  |-> Field("jwt_token", j) @@ Field("session_id", s)
                  @@ Field("timezone", tz) @@ Field("language", l)] :
        p \in PromptChoices, j \in JwtChoices, s \in SessionChoices,
        tz \in TimezoneChoices, l \in LanguageChoices }

\* dict.get(key, default)
Get(d, k, default) == IF k \in DOMAIN d THEN d[k] ELSE default

---------------------------------------------------------------------------
(* Token Inspector *)

\* jwt_token.split('.'): the segments, the second one as the sequence of its
\* characters
SplitDots(t) ==
    CASE t = T_U1       -> <<"h", SEG_U1, "s">>
      [] t = T_U2       -> <<"h", SEG_U2, "s">>
      [] t = T_U2L      -> <<"hhhhhhhhhhhhhhhhhhhhhhhhhhhhhhhhhhhhhhhh", SEG_U2, "s">>
      [] t = T_EMPTYSUB -> <<"h", SEG_EMPTYSUB, "s">>
      [] t = T_NOSUB    -> <<"h", SEG_NOSUB, "s">>
      [] t = T_TWOSEG   -> <<"h", SEG_U1>>
      [] t = T_NOTJSON  -> <<"h", SEG_NOTJSON, "s">>
      [] t = T_FOURSEG  -> <<"h", SEG_U1, "s", "x">>
      [] OTHER          -> <<t>>

\* '=' * padding
Pad(n) == [i \in 1..n |-> "="]

\* PadB64 that adds no padding
PadB64Never(payload) == payload

\* padding = 4 - (len(payload) % 4); if padding != 4: payload += '=' * padding
PadB64(payload) ==
    LET padding == 4 - (Len(payload) % 4) IN
    IF padding # 4 THEN payload \o Pad(padding) ELSE payload

\* the URL-safe base64 alphabet, by value
B64Alphabet ==
    <<"A", "B", "C", "D", "E", "F", "G", "H", "I", "J", "K", "L", "M", "N", "O", "P",
      "Q", "R", "S", "T", "U", "V", "W", "X", "Y", "Z", "a", "b", "c", "d", "e", "f",
      "g", "h", "i", "j", "k", "l", "m", "n", "o", "p", "q", "r", "s", "t", "u", "v",
      "w", "x", "y", "z", "0", "1", "2", "3", "4", "5", "6", "7", "8", "9", "-", "_">>

B64Value(c) == (CHOOSE i \in 1..64 : B64Alphabet[i] = c) - 1

\* what stands for a raise: in place of a dict, in place of bytes
Failed == [failed |-> "raised"]
NoBytes == <<-1>>

\* the bytes of a run of base64 characters without padding
RECURSIVE B64Bytes(_)
B64Bytes(cs) ==
    IF Len(cs) < 2 THEN <<>>
    ELSE LET a == B64Value(cs[1])
             b == B64Value(cs[2])
             first == a * 4 + (b \div 16)
         IN IF Len(cs) = 2 THEN <<first>>
            ELSE LET c == B64Value(cs[3])
                     second == (b % 16) * 16 + (c \div 4)
                 IN IF Len(cs) = 3 THEN <<first, second>>
                    ELSE <<first, second, (c % 4) * 64 + B64Value(cs[4])>>
                         \o B64Bytes(SubSeq(cs, 5, Len(cs)))

IsData(c) == c # "="

\* base64.urlsafe_b64decode(s): the bytes, or NoBytes when it raises
\* binascii.Error (the quads are not complete, or one data character is
\* left over)
UrlsafeB64Decode(s) ==
    LET data == SelectSeq(s, IsData) IN
    IF Len(s) % 4 # 0 \/ Len(data) % 4 = 1 THEN NoBytes
    ELSE B64Bytes(data)

\* the JSON objects of the model: string values under some of these keys
JsonKeys == <<"sub", "iss", "aud">>
JsonValues == {"", "u1", "u2", "x"}
JsonObjects ==
    UNION { [ks -> JsonValues] : ks \in SUBSET {JsonKeys[i] : i \in 1..Len(JsonKeys)} }

\* the UTF-8 bytes of the strings of the JSON objects
Utf8(str) ==
    CASE str = "sub" -> <<115, 117, 98>>
      [] str = "iss" -> <<105, 115, 115>>
      [] str = "aud" -> <<97, 117, 100>>
      [] str = "u1"  -> <<117, 49>>
      [] str = "u2"  -> <<117, 50>>
      [] str = "x"   -> <<120>>
      [] str = ""    -> <<>>

\* the text of a JSON object, compact: {"k":"v","k":"v"}
RECURSIVE JsonMembers(_, _, _)
JsonMembers(o, i, first) ==
    IF i > Len(JsonKeys) THEN <<>>
    ELSE IF JsonKeys[i] \notin DOMAIN o THEN JsonMembers(o, i + 1, first)
    ELSE (IF first THEN <<>> ELSE <<44>>)
         \o <<34>> \o Utf8(JsonKeys[i]) \o <<34, 58, 34>> \o Utf8(o[JsonKeys[i]]) \o <<34>>
         \o JsonMembers(o, i + 1, FALSE)

JsonDumps(o) == <<123>> \o JsonMembers(o, 1, TRUE) \o <<125>>

\* json.loads(bytes.decode('utf-8')): the object the text denotes, Failed
\* when the text is not JSON
JsonLoads(bytes) ==
    IF \E o \in JsonObjects : JsonDumps(o) = bytes
    THEN CHOOSE o \in JsonObjects : JsonDumps(o) = bytes
    ELSE Failed

\* json.loads(base64.urlsafe_b64decode(payload).decode('utf-8')); Failed when
\* the decode or the parse raises
B64JsonLoads(padded) ==
    LET decoded_bytes == UrlsafeB64Decode(padded) IN
    IF decoded_bytes = NoBytes THEN Failed ELSE JsonLoads(decoded_bytes)

\* _decode_jwt_payload after the split
DecodeParts(parts) ==
    IF Len(parts) # 3 THEN EmptyDict
    ELSE LET data == B64JsonLoads(PadB64(parts[2]))
         IN IF data = Failed THEN EmptyDict ELSE data

\* DecodeJwtPayload that takes the second segment of any token with two
\* segments or more
DecodeJwtPayloadAnySegments(jwt_token) ==
    LET parts == SplitDots(jwt_token) IN
    IF Len(parts) < 2 THEN EmptyDict
    ELSE LET data == B64JsonLoads(PadB64(parts[2]))
         IN IF data = Failed THEN EmptyDict ELSE data

DecodeJwtPayload(jwt_token) == DecodeParts(SplitDots(jwt_token))

\* the calls of base64.urlsafe_b64decode that _decode_jwt_payload makes
DecodeJwtCalls(jwt_token) == IF Len(SplitDots(jwt_token)) # 3 THEN 0 ELSE 1

\* _get_jwt_token: the process-wide token when set; the runtime context
\* (workload token, Authorization header) holds none in this model
GetJwtToken(current) == IF Truthy(current) THEN current ELSE None

GetSubFromJwt(current) ==
    LET jwt_token == GetJwtToken(current) IN
    IF ~Truthy(jwt_token) THEN None
    ELSE LET payload == DecodeJwtPayload(jwt_token) IN
         IF DOMAIN payload = {} THEN None
         ELSE LET sub == Get(payload, "sub", None) IN
              IF ~Truthy(sub) THEN None ELSE sub

GetUserTimezone(current) == IF Truthy(current) THEN current ELSE "Asia/Tokyo"

GetUserLanguage(current) == IF Truthy(current) THEN current ELSE "ja"

---------------------------------------------------------------------------
(* Events *)

TextEvent(text) == [event |-> [contentBlockDelta |-> [delta |-> [text |-> text]]]]

\* send_event builds the progress dict; tool_name only when it is truthy
ProgressEvent(message, stage, tool_name) ==
    IF Truthy(tool_name)
    THEN [event |-> [subAgentProgress |->
            [message |-> message, stage |-> stage, tool_name |-> tool_name]]]
    ELSE [event |-> [subAgentProgress |-> [message |-> message, stage |-> stage]]]

\* send_event(queue, message, stage, tool_name): the events it puts
SendEvent(hasQueue, message, stage, tool_name) ==
    IF ~hasQueue THEN <<>> ELSE <<ProgressEvent(message, stage, tool_name)>>

JwtMissingError == TextEvent(<<"error: ", "required field '", "jwt_token", "' is not in the payload">>)
SessionMissingError == TextEvent(<<"error: ", "required field '", "session_id", "' is not in the payload">>)
SessionLengthError(n) == TextEvent(<<"error: ", "session_id", " length is invalid: ", ToString(n), ", 33 or more needed">>)
SubError == TextEvent(<<"error: ", "could not extract ", "sub", " from the JWT token">>)
Greeting == TextEvent(<<"hello, how can I help with your health?">>)
HandlerError(e) == TextEvent(<<"sorry, an error occurred while processing: ", e>>)

---------------------------------------------------------------------------
(* Gateway Client: _call_mcp_gateway *)

\* A message is the sequence of the pieces of its f-string.  The literal
\* pieces keep the words the code looks for in str(e): "M2M", "Gateway",
\* "MCP", "access_token", "AGENTCORE_PROVIDER_NAME", and "authentication"
\* where the source has its Japanese word.
NoTokenText == "M2M authentication access_token is required: the MCP Gateway is called with M2M authentication only"
EndpointText == "Gateway endpoint error: "
EndpointHint == "; check HEALTHMANAGER_GATEWAY_ID"
GatewayIdMissingText == "environment variable HEALTHMANAGER_GATEWAY_ID is not set"
Status401Text == "MCP Gateway authentication error (401): the M2M token is invalid"
Status403Text == "MCP Gateway authorization error (403): scope HealthManager/HealthTarget:invoke is missing"
Status404Text == "MCP Gateway connection error (404): the HealthManager MCP service was not found"
Status5xxText == "MCP Gateway server error: internal error of the HealthManager MCP service, status "
HttpErrorText == "HTTP error "
ParseErrorText == "MCP Gateway response parse error: the response is not JSON: "
ProtocolErrorText == "MCP protocol error: "
TimeoutText == "MCP Gateway timeout error: no response within 30 seconds"
ConnectText == "MCP Gateway connection error: could not connect to the HealthManager MCP service at "
UnexpectedText == "MCP Gateway communication: unexpected error: "
UnexpectedHint == "; contact the administrator"

\* response.text of the responses of the model, and what else a message
\* interpolates
BodyTexts == {"", "denied", "Bad Gateway"}
ErrorPayloads == {"method not found", "Gateway target failed"}
TransportDetail == "all connection attempts failed"
OtherDetail == "server disconnected"

\* word in piece, for the pieces of the model
Within(word, piece) ==
    CASE word = "M2M" ->
            piece \in {NoTokenText, Status401Text}
      [] word = "authentication" ->
            piece \in {NoTokenText, Status401Text}
      [] word = "Gateway" ->
            piece \in {NoTokenText, EndpointText, Status401Text, Status403Text,
                       Status404Text, Status5xxText, ParseErrorText, TimeoutText,
                       ConnectText, UnexpectedText, "Bad Gateway",
                       "Gateway target failed"}
      [] OTHER -> FALSE

\* word in str(e)
Mentions(word, msg) == \E i \in 1..Len(msg) : Within(word, msg[i])

\* what the gateway does with the POST
HttpStatuses == {200, 302, 400, 401, 403, 404, 500, 503}
JsonBodies ==
    { [result |-> [tools |-> <<>>]],
      [result |-> [content |-> <<[text |-> "70kg"]>>]],
      [result |-> EmptyDict],
      [error |-> "method not found"],
      [error |-> "Gateway target failed", result |-> [tools |-> <<>>]],
      EmptyDict }
HttpOutcomes ==
    { [kind |-> "response", status |-> st, json |-> FALSE, text |-> b] :
        st \in HttpStatuses, b \in BodyTexts }
    \cup { [kind |-> "response", status |-> st, json |-> TRUE, body |-> j] :
        st \in HttpStatuses, j \in JsonBodies }
    \cup { [kind |-> "timeout"], [kind |-> "connect"], [kind |-> "other"] }

\* Python None where a dict is expected
NoneValue == [None |-> "None"]

Raise(msg) == [raised |-> TRUE, msg |-> msg]
Return(value) == [raised |-> FALSE, value |-> value]

\* the text of a response, for the messages
ResponseText(http) == IF http.json THEN "<json>" ELSE http.text

\* the body of the try block of _call_mcp_gateway once the response is in
HandleResponse(method, params, http) ==
    IF http.status = 401 THEN Raise(<<Status401Text>>)
    ELSE IF http.status = 403 THEN Raise(<<Status403Text>>)
    ELSE IF http.status = 404 THEN Raise(<<Status404Text>>)
    ELSE IF http.status >= 500
    THEN Raise(<<Status5xxText, ToString(http.status), ResponseText(http)>>)
    ELSE IF http.status # 200
    THEN Raise(<<HttpErrorText, ToString(http.status), ResponseText(http)>>)
    ELSE IF ~http.json THEN Raise(<<ParseErrorText, http.text>>)
    ELSE LET result == http.body IN
         IF "error" \in DOMAIN result
         THEN Raise(<<ProtocolErrorText, result.error, method, params>>)
         ELSE Return(Get(result, "result", NoneValue))

\* except Exception as e: messages that mention M2M, authentication or
\* Gateway are raised again as they are, the others wrapped
RaiseAgainOrWrap(r) ==
    IF ~r.raised THEN r
    ELSE IF Mentions("M2M", r.msg) \/ Mentions("authentication", r.msg)
            \/ Mentions("Gateway", r.msg)
    THEN r
    ELSE Raise(<<UnexpectedText>> \o r.msg \o <<UnexpectedHint>>)

\* a _call_mcp_gateway whose message for status 401 quotes the token
CallMcpGatewayTokenInMessage(method, params, access_token, gateway_id, http) ==
    IF ~Truthy(access_token) THEN Raise(<<NoTokenText>>)
    ELSE IF http.kind = "response" /\ http.status = 401
    THEN Raise(<<Status401Text, access_token>>)
    ELSE IF http.kind = "response"
    THEN RaiseAgainOrWrap(HandleResponse(method, params, http))
    ELSE Raise(<<TimeoutText, TransportDetail>>)

\* _call_mcp_gateway(method, params, access_token) with the gateway id of
\* the environment and the outcome of the POST, when it comes to one
CallMcpGateway(method, params, access_token, gateway_id, http) ==
    IF ~Truthy(access_token) THEN Raise(<<NoTokenText>>)
    ELSE IF ~Truthy(gateway_id)
    THEN Raise(<<EndpointText, GatewayIdMissingText, EndpointHint>>)
    ELSE IF http.kind = "timeout" THEN Raise(<<TimeoutText, TransportDetail>>)
    ELSE IF http.kind = "connect" THEN Raise(<<ConnectText, gateway_id, TransportDetail>>)
    ELSE IF http.kind = "other" THEN RaiseAgainOrWrap(Raise(<<OtherDetail>>))
    ELSE RaiseAgainOrWrap(HandleResponse(method, params, http))

\* a client.post that is tried again when the first attempt is over
PostCountRetry(access_token, gateway_id) ==
    IF Truthy(access_token) /\ Truthy(gateway_id) THEN 2 ELSE 0

\* how many times _call_mcp_gateway calls client.post
PostCount(access_token, gateway_id) ==
    IF Truthy(access_token) /\ Truthy(gateway_id) THEN 1 ELSE 0

\* a request that carries the token of the user as its bearer
PostRequestUserJwt(method, params, access_token, jwt_token, gateway_endpoint) ==
    [url |-> gateway_endpoint,
     Authorization |-> <<"Bearer ", jwt_token>>,
     method |-> method, params |-> params, timeout |-> 30]

\* the request of client.post: the URL, the Authorization header, the
\* method and params of the JSON-RPC payload, the timeout; jwt_token is
\* _current_jwt_token, which the function does not read
PostRequest(method, params, access_token, jwt_token, gateway_endpoint) ==
    [url |-> gateway_endpoint,
     Authorization |-> <<"Bearer ", access_token>>,
     method |-> method, params |-> params, timeout |-> 30]

---------------------------------------------------------------------------
(* Credential Acquirer and the two tools *)

ProviderMissingText == "environment variable AGENTCORE_PROVIDER_NAME is not set"
NoTokenFromDecoratorText == "the @requires_access_token decorator provided no access token"
ClientCreationText == "MCP client creation error: "
ProviderErrorText == "M2M authentication configuration error: the provider name is not set; detail: "
TokenErrorText == "M2M authentication token error: the access token could not be acquired; detail: "
McpErrorText == "MCP client creation error: communication with the HealthManager MCP service failed; detail: "
M2MErrorText == "M2M authentication error: "
IdentityDetail == "workload identity is unavailable"
MissingArgumentDetail == "missing 1 required positional argument: 'access_token'"

\* word in piece for the words _call_mcp_gateway_with_m2m looks for;
\* "access_token" is looked for in str(e).lower()
WithinM2M(word, piece) ==
    CASE word = "AGENTCORE_PROVIDER_NAME" ->
            piece \in {ProviderMissingText}
      [] word = "access_token" ->
            piece \in {NoTokenText, NoTokenFromDecoratorText, MissingArgumentDetail}
      [] word = "MCP" ->
            piece \in {NoTokenText, ClientCreationText, Status401Text,
                       Status403Text, Status404Text, Status5xxText,
                       ParseErrorText, ProtocolErrorText, TimeoutText,
                       ConnectText, UnexpectedText, McpErrorText}
      [] OTHER -> FALSE

MentionsM2M(word, msg) == \E i \in 1..Len(msg) : WithinM2M(word, msg[i])

\* what @requires_access_token does when get_mcp_client_from_gateway is
\* called: it hands over a token, hands over nothing, or raises; the
\* decorator of the fallback hands over no argument at all
CredentialOutcomes ==
    { [kind |-> "token", access_token |-> "tok-1"],
      [kind |-> "token", access_token |-> "tok-2"],
      [kind |-> "token", access_token |-> ""],
      [kind |-> "raise", detail |-> IdentityDetail],
      [kind |-> "raise", detail |-> MissingArgumentDetail] }

\* get_mcp_client_from_gateway() under its decorator
GetMcpClientFromGateway(cred, gateway_id) ==
    IF cred.kind = "raise" THEN Raise(<<cred.detail>>)
    ELSE IF ~Truthy(gateway_id)
    THEN Raise(<<ClientCreationText, GatewayIdMissingText>>)
    ELSE IF ~Truthy(cred.access_token)
    THEN Raise(<<ClientCreationText, NoTokenFromDecoratorText>>)
    ELSE Return([access_token |-> cred.access_token])

\* except Exception as e of _call_mcp_gateway_with_m2m
FormatM2MError(r) ==
    IF ~r.raised THEN r
    ELSE IF MentionsM2M("AGENTCORE_PROVIDER_NAME", r.msg)
    THEN Raise(<<ProviderErrorText>> \o r.msg)
    ELSE IF MentionsM2M("access_token", r.msg)
    THEN Raise(<<TokenErrorText>> \o r.msg)
    ELSE IF MentionsM2M("MCP", r.msg)
    THEN Raise(<<McpErrorText>> \o r.msg)
    ELSE Raise(<<M2MErrorText>> \o r.msg)

\* _call_mcp_gateway_with_m2m(method, params)
CallMcpGatewayWithM2M(method, params, cred, gateway_id, http) ==
    LET mcp_client_config == GetMcpClientFromGateway(cred, gateway_id) IN
    IF mcp_client_config.raised THEN FormatM2MError(mcp_client_config)
    ELSE FormatM2MError(CallMcpGateway(method, params,
                            mcp_client_config.value.access_token, gateway_id, http))

\* the POSTs of one _call_mcp_gateway_with_m2m
M2MPostCount(cred, gateway_id) ==
    LET mcp_client_config == GetMcpClientFromGateway(cred, gateway_id) IN
    IF mcp_client_config.raised THEN 0
    ELSE PostCount(mcp_client_config.value.access_token, gateway_id)

ToolListErrorText == "tool list error: "
NoToolsText == "no available tools were found"
ToolListHeader == "available HealthManagerMCP tools: "
McpCallErrorText == "HealthManagerMCP call error: "
EmptyResultText == "the result of the tool was empty"

\* not result, for what result.get('result') gives
Falsy(result) == result = NoneValue \/ result = EmptyDict

\* str(result) of the results of the model
Str(result) ==
    IF result = [tools |-> <<>>] THEN "{'tools': []}"
    ELSE IF result = [content |-> <<[text |-> "70kg"]>>]
    THEN "{'content': [{'text': '70kg'}]}"
    ELSE "{}"

\* a tool whose except clause is missing: the exception leaves the tool
ListHealthToolsRaising(r) ==
    IF r.raised THEN <<Raised>>
    ELSE IF Falsy(r.value) \/ "tools" \notin DOMAIN r.value THEN <<NoToolsText>>
    ELSE <<ToolListHeader, ToString(Len(r.value.tools))>>

\* list_health_tools, given what _call_mcp_gateway_with_m2m did; the tool
\* lists of the model are empty, and so is the list of their descriptions
ListHealthTools(r) ==
    IF r.raised THEN <<ToolListErrorText>> \o r.msg
    ELSE IF Falsy(r.value) \/ "tools" \notin DOMAIN r.value THEN <<NoToolsText>>
    ELSE <<ToolListHeader, ToString(Len(r.value.tools))>>

\* health_manager_mcp, given what _call_mcp_gateway_with_m2m did
HealthManagerMcp(r) ==
    IF r.raised THEN <<McpCallErrorText>> \o r.msg
    ELSE IF Falsy(r.value) THEN <<EmptyResultText>>
    ELSE IF "content" \in DOMAIN r.value
    THEN LET content == r.value.content IN
         IF content # <<>> THEN <<content[1].text>> ELSE <<"[]">>
    ELSE <<Str(r.value)>>

---------------------------------------------------------------------------
(* Configuration Resolver *)

DefaultRegion == "us-west-2"

\* os.environ.get(name, default), the value being None when name is not set
EnvironGet(value, default) == IF value = None THEN default ELSE value

\* the names _validate_required_environment_variables finds missing
RequiredMissing(provider, gateway) ==
    (IF ~Truthy(provider) \/ IsBlank(provider)
     THEN <<"AGENTCORE_PROVIDER_NAME">> ELSE <<>>)
    \o (IF ~Truthy(gateway) \/ IsBlank(gateway)
        THEN <<"HEALTHMANAGER_GATEWAY_ID">> ELSE <<>>)

\* M2MAuthConfig(): its provider_name, or Raised
GetProviderName(provider) == IF ~Truthy(provider) THEN Raised ELSE provider

\* the module-level try block: the provider name kept in _m2m_auth_config,
\* or Raised when the import of the module fails
ModuleInitialization(provider, gateway) ==
    IF RequiredMissing(provider, gateway) # <<>> THEN Raised
    ELSE GetProviderName(provider)

\* _get_m2m_auth_config(): the provider name of the instance kept in
\* _m2m_auth_config, made from the environment when there is none
GetM2MAuthConfig(kept, provider) ==
    IF kept = None THEN GetProviderName(provider) ELSE kept

\* _get_gateway_endpoint(): the pieces of the URL, or <<Raised>>
GetGatewayEndpoint(gateway, region) ==
    IF ~Truthy(gateway) THEN <<Raised>>
    ELSE <<"https://", gateway, ".gateway.bedrock-agentcore.",
           EnvironGet(region, DefaultRegion), ".amazonaws.com/mcp">>

\* validate_environment_variables() of m2m_auth_config.py: the names it
\* finds missing (it raises when there is one)
ValidateEnvironmentVariables(provider, gateway, region, memory) ==
    (IF ~Truthy(provider) THEN <<"AGENTCORE_PROVIDER_NAME">> ELSE <<>>)
    \o (IF ~Truthy(gateway) THEN <<"HEALTHMANAGER_GATEWAY_ID">> ELSE <<>>)
    \o (IF ~Truthy(region) THEN <<"AWS_REGION">> ELSE <<>>)
    \o (IF ~Truthy(memory) THEN <<"BEDROCK_AGENTCORE_MEMORY_ID">> ELSE <<>>)

---------------------------------------------------------------------------
(* Agent construction *)

MemoryIdChoices == {None, "mem-short", "memory-0123456789"}

\* _get_memory_id: the validated id, or Raised
GetMemoryId(env) ==
    IF ~Truthy(env) THEN Raised
    ELSE IF IsBlank(env) THEN Raised
    ELSE IF Len(env) < MinMemoryIdLen THEN Raised
    ELSE env

\* a _validate_memory_config that finds nothing wrong
MemoryConfigErrorsNone(memory_id, session_id, actor_id) == <<>>

\* _validate_memory_config: the list of errors (it raises when there is one)
MemoryConfigErrors(memory_id, session_id, actor_id) ==
    (IF ~Truthy(memory_id) \/ IsBlank(memory_id) THEN <<"memory_id empty">>
     ELSE IF Len(memory_id) < MinMemoryIdLen THEN <<"memory_id short">> ELSE <<>>)
    \o (IF ~Truthy(session_id) \/ IsBlank(session_id) THEN <<"session_id empty">>
        ELSE IF Len(session_id) < MinSessionLen THEN <<"session_id short">> ELSE <<>>)
    \o (IF ~Truthy(actor_id) \/ IsBlank(actor_id) THEN <<"actor_id empty">> ELSE <<>>)

\* _create_health_coach_agent_with_memory: what it read and built, or the
\* exception it raises.  external is the outcome of the constructors of the
\* memory service and of the agent framework.
CreateAgentWithMemory(session_id, actor_id, env, tz, lang, external) ==
    LET user_timezone == GetUserTimezone(tz)
        user_language == GetUserLanguage(lang)
        memory_id == GetMemoryId(env)
    IN  IF memory_id = Raised
        THEN [ok |-> FALSE, exc |-> "memory_id", tz |-> user_timezone, lang |-> user_language]
        ELSE IF MemoryConfigErrors(memory_id, session_id, actor_id) # <<>>
        THEN [ok |-> FALSE, exc |-> "memory_config", tz |-> user_timezone, lang |-> user_language]
        ELSE IF external # "ok"
        THEN [ok |-> FALSE, exc |-> "memory_service", tz |-> user_timezone, lang |-> user_language]
        ELSE [ok |-> TRUE, tz |-> user_timezone, lang |-> user_language,
              scope |-> <<memory_id, session_id, actor_id>>]

---------------------------------------------------------------------------
(* Event Relay *)

\* The raw events of agent.stream_async: a plain str, or a dict with "event"
RawStr(c) == [str |-> c]
RawDelta(c) == [event |-> [contentBlockDelta |-> [delta |-> [text |-> c], contentBlockIndex |-> 0]]]
RawDeltaNoText == [event |-> [contentBlockDelta |-> [delta |-> [toolUse |-> "input"]]]]
RawToolUse(name) == [event |-> [contentBlockStart |-> [start |-> [toolUse |-> [name |-> name]]]]]
RawToolUseNoName == [event |-> [contentBlockStart |-> [start |-> [toolUse |-> [toolUseId |-> "t1"]]]]]
RawStartNoTool == [event |-> [contentBlockStart |-> [start |-> EmptyDict]]]
RawOther == [event |-> [messageStop |-> "end_turn"]]

RawEvents ==
    { RawStr(<<"a">>), RawDelta(<<"b">>), RawDeltaNoText, RawToolUse("GetUser"),
      RawToolUseNoName, RawStartNoTool, RawOther }

\* ExtractHealthCoachEvents that puts the text of a contentBlockDelta on the
\* queue without adding it to state["text"]
ExtractHealthCoachEventsDeltaNotKept(hasQueue, event, text) ==
    IF "str" \in DOMAIN event
    THEN [text |-> text \o event.str,
          puts |-> IF hasQueue THEN <<TextEvent(event.str)>> ELSE <<>>]
    ELSE IF "event" \in DOMAIN event
    THEN LET event_data == event.event
             toolPuts ==
                IF "contentBlockStart" \in DOMAIN event_data
                THEN LET start_data == Get(event_data.contentBlockStart, "start", EmptyDict) IN
                     IF "toolUse" \in DOMAIN start_data
                     THEN LET tool == Get(start_data.toolUse, "name", "unknown") IN
                          SendEvent(hasQueue, <<"processing health data with ", tool>>,
                                    "tool_use", tool)
                     ELSE <<>>
                ELSE <<>>
             hasText ==
                /\ "contentBlockDelta" \in DOMAIN event_data
                /\ "text" \in DOMAIN Get(event_data.contentBlockDelta, "delta", EmptyDict)
         IN [text |-> text,
             puts |-> toolPuts \o
                      (IF hasText /\ hasQueue
                       THEN <<event>>
                       ELSE <<>>)]
    ELSE [text |-> text, puts |-> <<>>]

\* _extract_health_coach_events(queue, event, state): the new state["text"]
\* and the events put on the queue, in order
ExtractHealthCoachEvents(hasQueue, event, text) ==
    IF "str" \in DOMAIN event
    THEN [text |-> text \o event.str,
          puts |-> IF hasQueue THEN <<TextEvent(event.str)>> ELSE <<>>]
    ELSE IF "event" \in DOMAIN event
    THEN LET event_data == event.event
             toolPuts ==
                IF "contentBlockStart" \in DOMAIN event_data
                THEN LET start_data == Get(event_data.contentBlockStart, "start", EmptyDict) IN
                     IF "toolUse" \in DOMAIN start_data
                     THEN LET tool == Get(start_data.toolUse, "name", "unknown") IN
                          SendEvent(hasQueue, <<"processing health data with ", tool>>,
                                    "tool_use", tool)
                     ELSE <<>>
                ELSE <<>>
             hasText ==
                /\ "contentBlockDelta" \in DOMAIN event_data
                /\ "text" \in DOMAIN Get(event_data.contentBlockDelta, "delta", EmptyDict)
         IN [text |-> IF hasText
                      THEN text \o event_data.contentBlockDelta.delta.text
                      ELSE text,
             puts |-> toolPuts \o
                      (IF hasText /\ hasQueue
                       THEN <<event>>
                       ELSE <<>>)]
    ELSE [text |-> text, puts |-> <<>>]

---------------------------------------------------------------------------
(* State *)

VARIABLES
    envMemoryId,    \* os.environ['BEDROCK_AGENTCORE_MEMORY_ID']
    b64Calls,       \* history: calls of base64.urlsafe_b64decode
    curJwt,         \* _current_jwt_token
    curTz,          \* _current_timezone
    curLang,        \* _current_language
    payload,        \* the payload handed to invoke, or None
    hpc,            \* where the handler invoke (or a direct caller) stands
    session_id,     \* session_id handed to invoke_health_coach
    actor_id,       \* actor_id handed to invoke_health_coach
    out,            \* the events the handler has yielded to its caller
    queue,          \* the asyncio.Queue of the request
    respVar,        \* the variable response_task: "task" or None
    queueTask,      \* the task of queue.get() held by queue_task
    waiting,        \* the set waiting
    readyTodo,      \* the tasks of ready_tasks the for loop has yet to visit
    apc,            \* where the agent task invoke_health_coach stands
    hasQueue,       \* whether invoke_health_coach was given a queue
    text,           \* state["text"]
    exc,            \* the exception invoke_health_coach raised, or None
    streamPos,      \* raw events consumed from agent.stream_async
    pendingTool,    \* the model asked for a tool and the tool has not run yet
    pushed,         \* history: every event put on a queue, in order
    rawTexts,       \* history: the text chunks of the raw stream, in order
    rawTools,       \* history: the tool names of the raw stream, in order
    memScope,       \* history: the AgentCoreMemoryConfig built, or <<>>
    usedTz,         \* history: the timezone read at agent construction
    usedLang,       \* history: the language read at agent construction
    credCalls,      \* history: calls of the credential acquirer
    gwCalls,        \* history: HTTP POSTs to the gateway
    tokPc,          \* token round trip: "off", "object", "token" or "decoded"
    tokObj,         \* the JSON object encoded, {} when the segment was given
    tokGiven,       \* the segment was given, not encoded from tokObj
    tokSeg,         \* the second segment of the token
    tokPadded,      \* the segment as handed to base64.urlsafe_b64decode
    tokOut,         \* what _decode_jwt_payload returned
    toolPc,         \* one tool invocation: "off", "called", "acquired", "returned"
    toolName,       \* the tool invoked
    toolParams,     \* the tool_name it was given, None for list_health_tools
    toolCred,       \* what the credential acquirer did
    toolHttp,       \* what the POST came to
    gwOut,          \* what _call_mcp_gateway returned or raised
    toolCreds,      \* history: credential acquisitions of the invocation
    toolPosts,      \* history: HTTP POSTs of the invocation
    toolSent,       \* history: the requests the invocation POSTed
    toolRet,        \* the string the tool returned
    envProvider,    \* os.environ['AGENTCORE_PROVIDER_NAME']
    envGatewayId,   \* os.environ['HEALTHMANAGER_GATEWAY_ID']
    envRegion,      \* os.environ['AWS_REGION']
    cfgPc,          \* the process: "off", "boot", "serving" or "aborted"
    cfgKept,        \* the provider name of _m2m_auth_config, or None
    cfgReads,       \* history: lookups of each name by the resolutions
    cfgCalls,       \* history: resolutions of the configuration so far
    cfgFirst,       \* what the first resolution returned
    cfgSecond,      \* what the second resolution returned
    cfgChanges,     \* history: changes of the environment since the start
    cfgCheck,       \* what validate_environment_variables found missing
    reqPc,          \* two requests: where the handler of each stands
    reqPayload,     \* two requests: the payload handed to each invoke
    reqArgs,        \* two requests: session_id and actor_id handed to the agent task
    reqUsed,        \* two requests: what the agent construction of each read and built
    legJwt,         \* health_coach_ai: _current_jwt_token
    legPc,          \* health_coach_ai: where the request under way stands
    legLog          \* health_coach_ai: history of the requests, the last one under way

vars == <<envMemoryId, b64Calls, curJwt, curTz, curLang, payload, hpc, session_id, actor_id, out,
          queue, respVar, queueTask, waiting, readyTodo, apc, hasQueue, text,
          exc, streamPos, pendingTool, pushed, rawTexts, rawTools, memScope,
          usedTz, usedLang, credCalls, gwCalls, tokPc, tokObj, tokGiven, tokSeg,
          tokPadded, tokOut, toolPc, toolName, toolParams, toolCred, toolHttp,
          gwOut, toolCreds, toolPosts, toolSent, toolRet, envProvider, envGatewayId, envRegion,
          cfgPc, cfgKept, cfgReads, cfgCalls, cfgFirst, cfgSecond, cfgChanges,
          cfgCheck, reqPc, reqPayload, reqArgs, reqUsed,
          legJwt, legPc, legLog>>

\* the variables of the checks of single functions, which no request touches
tokenVars == <<tokPc, tokObj, tokGiven, tokSeg, tokPadded, tokOut>>
toolVars == <<toolPc, toolName, toolParams, toolCred, toolHttp, gwOut, toolCreds,
              toolPosts, toolSent, toolRet>>
cfgVars == <<envProvider, envGatewayId, envRegion, cfgPc, cfgKept, cfgReads, cfgCalls,
             cfgFirst, cfgSecond, cfgChanges, cfgCheck>>
twoVars == <<reqPc, reqPayload, reqArgs, reqUsed>>
legVars == <<legJwt, legPc, legLog>>
pureVars == <<tokenVars, toolVars, cfgVars, twoVars, legVars>>

globalVars == <<curJwt, curTz, curLang>>
runVars == <<b64Calls, curJwt, curTz, curLang, payload, hpc, session_id,
             actor_id, out, queue, respVar, queueTask, waiting, readyTodo, apc,
             hasQueue, text, exc, streamPos, pendingTool, pushed, rawTexts,
             rawTools, memScope, usedTz, usedLang, credCalls, gwCalls>>
requestVars == <<envMemoryId, runVars>>
handlerVars == <<hpc, out, respVar, waiting, readyTodo>>
agentVars == <<apc, hasQueue, text, exc, streamPos, pendingTool, pushed, rawTexts,
               rawTools, memScope, usedTz, usedLang, credCalls, gwCalls>>

NoTask == [state |-> "none"]
NewTask == [state |-> "new"]

\* an item of the queue: the event, tagged with its position in pushed
Item(n, ev) == [n |-> n, ev |-> ev]

\* the events evs put on a queue that has seen k events so far
Tag(k, evs) == [i \in 1..Len(evs) |-> Item(k + i, evs[i])]

\* an event the handler builds itself
Own(ev) == Item(0, ev)

TokenIdle ==
    /\ tokPc = "off" /\ tokObj = EmptyDict /\ tokGiven = FALSE
    /\ tokSeg = <<>> /\ tokPadded = <<>> /\ tokOut = EmptyDict

NoCredential == [kind |-> "none"]
NoHttp == [kind |-> "none"]

ToolIdle ==
    /\ toolPc = "off" /\ toolName = None /\ toolParams = None
    /\ toolCred = NoCredential /\ toolHttp = NoHttp
    /\ gwOut = Return(NoneValue)
    /\ toolCreds = 0 /\ toolPosts = 0 /\ toolSent = <<>> /\ toolRet = <<>>

ProviderName == "cognito-m2m"
GatewayId == "gw-1"
NoReads == [provider |-> 0, gateway |-> 0, region |-> 0, memory |-> 0]
NoConfig == [provider_name |-> None, gateway_endpoint |-> <<>>, memory_id |-> None]

\* nothing resolved yet
Unresolved ==
    /\ cfgKept = None /\ cfgReads = NoReads /\ cfgCalls = 0
    /\ cfgFirst = NoConfig /\ cfgSecond = NoConfig
    /\ cfgChanges = 0 /\ cfgCheck = <<"not called">>

\* the two concurrently handled requests
Requests == {1, 2}

NothingUsed == [tz |-> None, lang |-> None, scope |-> <<>>]

\* no concurrent requests
TwoIdle ==
    /\ reqPc = [r \in Requests |-> "off"]
    /\ reqPayload = [r \in Requests |-> [prompt |-> None, attrs |-> EmptyDict]]
    /\ reqArgs = [r \in Requests |-> <<>>]
    /\ reqUsed = [r \in Requests |-> NothingUsed]

\* health_coach_ai just imported: no token kept, no request yet
LegacyIdle == legJwt = None /\ legPc = "idle" /\ legLog = <<>>

\* a process that started with its provider name and gateway id set
ConfigIdle ==
    /\ envProvider = ProviderName /\ envGatewayId = GatewayId /\ envRegion = None
    /\ cfgPc = "off"
    /\ Unresolved

\* no request under way
NoRequest ==
    /\ b64Calls = 0
    /\ payload = [prompt |-> None, attrs |-> EmptyDict]
    /\ hpc = "idle"
    /\ session_id = None /\ actor_id = None
    /\ out = <<>>
    /\ queue = <<>>
    /\ respVar = None
    /\ queueTask = NoTask
    /\ waiting = {}
    /\ readyTodo = <<>>
    /\ apc = "none"
    /\ hasQueue = FALSE
    /\ text = <<>>
    /\ exc = None
    /\ streamPos = 0
    /\ pendingTool = FALSE
    /\ pushed = <<>>
    /\ rawTexts = <<>>
    /\ rawTools = <<>>
    /\ memScope = <<>>
    /\ usedTz = None /\ usedLang = None
    /\ credCalls = 0 /\ gwCalls = 0

\* no request yet
RequestInit ==
    /\ curJwt = None /\ curTz = None /\ curLang = None
    /\ NoRequest

Init ==
    /\ envMemoryId \in MemoryIdChoices
    /\ RequestInit
    /\ TokenIdle
    /\ ToolIdle
    /\ ConfigIdle
    /\ TwoIdle
    /\ LegacyIdle

---------------------------------------------------------------------------
(* Session/Request Validator and Entry Orchestrator *)

\* ValidateRequest without the length check of session_id
ValidateRequestNoLength(p) ==
    LET session_attrs == p.attrs
        jwt_token_from_payload == Get(session_attrs, "jwt_token", None)
        session_id_from_payload == Get(session_attrs, "session_id", None)
        fields == [jwt |-> jwt_token_from_payload,
                   tz |-> Get(session_attrs, "timezone", "Asia/Tokyo"),
                   lang |-> Get(session_attrs, "language", "ja"),
                   session_id |-> session_id_from_payload]
    IN  IF ~Truthy(jwt_token_from_payload)
        THEN [ok |-> FALSE, stored |-> FALSE, event |-> JwtMissingError] @@ fields
        ELSE IF ~Truthy(session_id_from_payload)
        THEN [ok |-> FALSE, stored |-> FALSE, event |-> SessionMissingError] @@ fields
        ELSE LET actor == GetSubFromJwt(jwt_token_from_payload) IN
             IF ~Truthy(actor)
             THEN [ok |-> FALSE, stored |-> TRUE, event |-> SubError] @@ fields
             ELSE [ok |-> TRUE, stored |-> TRUE, actor_id |-> actor] @@ fields

\* ValidateRequest with the checks of session_id before the check of jwt_token
ValidateRequestSessionFirst(p) ==
    LET session_attrs == p.attrs
        jwt_token_from_payload == Get(session_attrs, "jwt_token", None)
        session_id_from_payload == Get(session_attrs, "session_id", None)
        fields == [jwt |-> jwt_token_from_payload,
                   tz |-> Get(session_attrs, "timezone", "Asia/Tokyo"),
                   lang |-> Get(session_attrs, "language", "ja"),
                   session_id |-> session_id_from_payload]
    IN  IF ~Truthy(session_id_from_payload)
        THEN [ok |-> FALSE, stored |-> FALSE, event |-> SessionMissingError] @@ fields
        ELSE IF Len(session_id_from_payload) < MinSessionLen
        THEN [ok |-> FALSE, stored |-> FALSE,
              event |-> SessionLengthError(Len(session_id_from_payload))] @@ fields
        ELSE IF ~Truthy(jwt_token_from_payload)
        THEN [ok |-> FALSE, stored |-> FALSE, event |-> JwtMissingError] @@ fields
        ELSE LET actor == GetSubFromJwt(jwt_token_from_payload) IN
             IF ~Truthy(actor)
             THEN [ok |-> FALSE, stored |-> TRUE, event |-> SubError] @@ fields
             ELSE [ok |-> TRUE, stored |-> TRUE, actor_id |-> actor] @@ fields

\* ValidateRequest with no default for timezone and language
ValidateRequestNoDefaults(p) ==
    LET session_attrs == p.attrs
        jwt_token_from_payload == Get(session_attrs, "jwt_token", None)
        session_id_from_payload == Get(session_attrs, "session_id", None)
        fields == [jwt |-> jwt_token_from_payload,
                   tz |-> Get(session_attrs, "timezone", None),
                   lang |-> Get(session_attrs, "language", None),
                   session_id |-> session_id_from_payload]
    IN  IF ~Truthy(jwt_token_from_payload)
        THEN [ok |-> FALSE, stored |-> FALSE, event |-> JwtMissingError] @@ fields
        ELSE IF ~Truthy(session_id_from_payload)
        THEN [ok |-> FALSE, stored |-> FALSE, event |-> SessionMissingError] @@ fields
        ELSE IF Len(session_id_from_payload) < MinSessionLen
        THEN [ok |-> FALSE, stored |-> FALSE,
              event |-> SessionLengthError(Len(session_id_from_payload))] @@ fields
        ELSE LET actor == GetSubFromJwt(jwt_token_from_payload) IN
             IF ~Truthy(actor)
             THEN [ok |-> FALSE, stored |-> TRUE, event |-> SubError] @@ fields
             ELSE [ok |-> TRUE, stored |-> TRUE, actor_id |-> actor] @@ fields

\* invoke, from the extraction of the session attributes to the check of
\* actor_id: the error event of the first check that fails, whether the
\* process-wide request context was stored on the way, and the validated
\* values
ValidateRequest(p) ==
    LET session_attrs == p.attrs
        jwt_token_from_payload == Get(session_attrs, "jwt_token", None)
        timezone_from_payload == Get(session_attrs, "timezone", "Asia/Tokyo")
        language_from_payload == Get(session_attrs, "language", "ja")
        session_id_from_payload == Get(session_attrs, "session_id", None)
        fields == [jwt |-> jwt_token_from_payload, tz |-> timezone_from_payload,
                   lang |-> language_from_payload, session_id |-> session_id_from_payload]
    IN  IF ~Truthy(jwt_token_from_payload)
        THEN [ok |-> FALSE, stored |-> FALSE, event |-> JwtMissingError] @@ fields
        ELSE IF ~Truthy(session_id_from_payload)
        THEN [ok |-> FALSE, stored |-> FALSE, event |-> SessionMissingError] @@ fields
        ELSE IF Len(session_id_from_payload) < MinSessionLen
        THEN [ok |-> FALSE, stored |-> FALSE,
              event |-> SessionLengthError(Len(session_id_from_payload))] @@ fields
        ELSE LET actor == GetSubFromJwt(jwt_token_from_payload) IN
             IF ~Truthy(actor)
             THEN [ok |-> FALSE, stored |-> TRUE, event |-> SubError] @@ fields
             ELSE [ok |-> TRUE, stored |-> TRUE, actor_id |-> actor] @@ fields

\* The handler is suspended (in asyncio.wait or at a yield) or has not
\* started or has ended: the loop may run another task.
HandlerSuspended == hpc \notin {"for", "drain"}

HandlerEnded == hpc \in {"rejected", "greeted", "completed", "failed"}

\* Invoke that looks at the prompt before it validates the payload
InvokePromptFirst(p) ==
    /\ hpc = "idle"
    /\ payload' = p
    /\ LET v == ValidateRequest(p)
           prompt == IF p.prompt = Absent THEN "" ELSE p.prompt
       IN
       /\ IF v.stored /\ Truthy(prompt)
          THEN /\ curJwt' = v.jwt /\ curTz' = v.tz /\ curLang' = v.lang
               /\ b64Calls' = b64Calls + DecodeJwtCalls(v.jwt)
          ELSE UNCHANGED <<globalVars, b64Calls>>
       /\ IF ~Truthy(prompt)
          THEN /\ out' = Append(out, Own(Greeting))
               /\ hpc' = "yield_greeting"
               /\ UNCHANGED <<session_id, actor_id, queue, respVar, queueTask,
                              waiting, apc, hasQueue>>
          ELSE IF ~v.ok
          THEN /\ out' = Append(out, Own(v.event))
               /\ hpc' = "yield_rejected"
               /\ UNCHANGED <<session_id, actor_id, queue, respVar, queueTask,
                              waiting, apc, hasQueue>>
          ELSE /\ session_id' = v.session_id
               /\ actor_id' = v.actor_id
               /\ queue' = <<>>
               /\ hasQueue' = TRUE
               /\ apc' = "new"
               /\ respVar' = "task"
               /\ queueTask' = NewTask
               /\ waiting' = {"response", "queue"}
               /\ hpc' = "wait"
               /\ out' = out
    /\ UNCHANGED <<pureVars, envMemoryId, readyTodo, text, exc, streamPos, pendingTool,
                   pushed, rawTexts, rawTools, memScope, usedTz, usedLang,
                   credCalls, gwCalls>>

\* invoke(payload) up to its first suspension: a yield of the rejection or
\* of the greeting, or asyncio.wait on the two tasks it created
Invoke(p) ==
    /\ hpc = "idle"
    /\ payload' = p
    /\ LET v == ValidateRequest(p)
           prompt == IF p.prompt = Absent THEN "" ELSE p.prompt
       IN
       /\ IF v.stored
          THEN /\ curJwt' = v.jwt /\ curTz' = v.tz /\ curLang' = v.lang
               /\ b64Calls' = b64Calls + DecodeJwtCalls(v.jwt)
          ELSE UNCHANGED <<globalVars, b64Calls>>
       /\ IF ~v.ok
          THEN /\ out' = Append(out, Own(v.event))
               /\ hpc' = "yield_rejected"
               /\ UNCHANGED <<session_id, actor_id, queue, respVar, queueTask,
                              waiting, apc, hasQueue>>
          ELSE IF ~Truthy(prompt)
          THEN /\ out' = Append(out, Own(Greeting))
               /\ hpc' = "yield_greeting"
               /\ UNCHANGED <<session_id, actor_id, queue, respVar, queueTask,
                              waiting, apc, hasQueue>>
          ELSE /\ session_id' = v.session_id
               /\ actor_id' = v.actor_id
               /\ queue' = <<>>
               /\ hasQueue' = TRUE
               /\ apc' = "new"
               /\ respVar' = "task"
               /\ queueTask' = NewTask
               /\ waiting' = {"response", "queue"}
               /\ hpc' = "wait"
               /\ out' = out
    /\ UNCHANGED <<pureVars, envMemoryId, readyTodo, text, exc, streamPos, pendingTool,
                   pushed, rawTexts, rawTools, memScope, usedTz, usedLang,
                   credCalls, gwCalls>>

\* The caller asks for the next event after the last yield of a path: the
\* generator returns.
ResumeLastYield ==
    /\ hpc \in {"yield_rejected", "yield_greeting", "yield_error"}
    /\ hpc' = CASE hpc = "yield_rejected" -> "rejected"
                [] hpc = "yield_greeting" -> "greeted"
                [] hpc = "yield_error"    -> "failed"
    /\ UNCHANGED <<pureVars, envMemoryId, b64Calls, globalVars, payload, session_id, actor_id, out, queue,
                   respVar, queueTask, waiting, readyTodo, agentVars>>

TaskDone(t) ==
    IF t = "response" THEN apc \in {"done_ok", "done_exc"}
    ELSE queueTask.state = "done"

\* queue.get() has a step to take: its first, or the one after put_nowait
\* woke its getter
QueueTaskRunnable ==
    \/ queueTask.state = "new"
    \/ queueTask.state = "blocked" /\ queue # <<>>

\* The orders in which the for loop can visit the set ready_tasks
Orders(S) ==
    IF S = {} THEN {<<>>}
    ELSE IF Cardinality(S) = 1 THEN {<<CHOOSE t \in S : TRUE>>}
    ELSE {<<"response", "queue">>, <<"queue", "response">>}

\* asyncio.wait(waiting, return_when=FIRST_COMPLETED) returns: ready_tasks
\* is every task of waiting that is done, waiting the others.  The loop runs
\* its callbacks in the order they were scheduled, so a step queue.get() had
\* to take was taken before the handler is resumed.
WaitReturn ==
    /\ hpc = "wait"
    /\ ~QueueTaskRunnable
    /\ LET ready == {t \in waiting : TaskDone(t)} IN
       /\ ready # {}
       /\ readyTodo' \in Orders(ready)
       /\ waiting' = waiting \ ready
    /\ hpc' = "for"
    /\ UNCHANGED <<pureVars, envMemoryId, b64Calls, globalVars, payload, session_id, actor_id, out, queue,
                   respVar, queueTask, agentVars>>

\* ForResponse that catches the exception of response_task inside the loop
\* and goes on
ForResponseCatchInside ==
    /\ hpc = "for"
    /\ readyTodo # <<>> /\ Head(readyTodo) = "response"
    /\ IF apc # "done_exc" /\ text # <<>> /\ queue # <<>>
       THEN /\ hpc' = "drain"
            /\ UNCHANGED <<out, respVar, readyTodo>>
       ELSE /\ respVar' = None
            /\ readyTodo' = Tail(readyTodo)
            /\ UNCHANGED <<out, hpc>>
    /\ UNCHANGED <<pureVars, envMemoryId, b64Calls, globalVars, payload, session_id, actor_id, queue,
                   queueTask, waiting, agentVars>>

\* ForResponse that lets the exception of response_task end the handler
\* without an event
ForResponseSilentFailure ==
    /\ hpc = "for"
    /\ readyTodo # <<>> /\ Head(readyTodo) = "response"
    /\ IF apc = "done_exc"
       THEN /\ hpc' = "failed"
            /\ UNCHANGED <<out, respVar, readyTodo>>
       ELSE IF text # <<>> /\ queue # <<>>
       THEN /\ hpc' = "drain"
            /\ UNCHANGED <<out, respVar, readyTodo>>
       ELSE /\ respVar' = None
            /\ readyTodo' = Tail(readyTodo)
            /\ UNCHANGED <<out, hpc>>
    /\ UNCHANGED <<pureVars, envMemoryId, b64Calls, globalVars, payload, session_id, actor_id, queue,
                   queueTask, waiting, agentVars>>

\* for ready_task in ready_tasks: ready_task == response_task
ForResponse ==
    /\ hpc = "for"
    /\ readyTodo # <<>> /\ Head(readyTodo) = "response"
    /\ IF apc = "done_exc"
       THEN \* ready_task.result() raises: except Exception as e: yield error_event
            /\ out' = Append(out, Own(HandlerError(exc)))
            /\ hpc' = "yield_error"
            /\ UNCHANGED <<respVar, readyTodo>>
       ELSE IF text # <<>> /\ queue # <<>>
       THEN \* final_response and not queue.empty()
            /\ hpc' = "drain"
            /\ UNCHANGED <<out, respVar, readyTodo>>
       ELSE /\ respVar' = None
            /\ readyTodo' = Tail(readyTodo)
            /\ UNCHANGED <<out, hpc>>
    /\ UNCHANGED <<pureVars, envMemoryId, b64Calls, globalVars, payload, session_id, actor_id, queue,
                   queueTask, waiting, agentVars>>

\* a drain that yields the event it takes off the queue twice
DrainStepTwice ==
    /\ hpc = "drain"
    /\ IF queue # <<>>
       THEN /\ out' = out \o <<Head(queue), Head(queue)>>
            /\ queue' = Tail(queue)
            /\ hpc' = "yield_drain"
            /\ UNCHANGED <<respVar, readyTodo>>
       ELSE /\ respVar' = None
            /\ readyTodo' = Tail(readyTodo)
            /\ hpc' = "for"
            /\ UNCHANGED <<out, queue>>
    /\ UNCHANGED <<pureVars, envMemoryId, b64Calls, globalVars, payload, session_id, actor_id, queueTask,
                   waiting, agentVars>>

\* while not queue.empty(): event = queue.get_nowait(); yield event
DrainStep ==
    /\ hpc = "drain"
    /\ IF queue # <<>>
       THEN /\ out' = Append(out, Head(queue))
            /\ queue' = Tail(queue)
            /\ hpc' = "yield_drain"
            /\ UNCHANGED <<respVar, readyTodo>>
       ELSE /\ respVar' = None
            /\ readyTodo' = Tail(readyTodo)
            /\ hpc' = "for"
            /\ UNCHANGED <<out, queue>>
    /\ UNCHANGED <<pureVars, envMemoryId, b64Calls, globalVars, payload, session_id, actor_id, queueTask,
                   waiting, agentVars>>

\* The caller asks for the next event while the handler stands at the yield
\* of the drain.
ResumeDrainYield ==
    /\ hpc = "yield_drain"
    /\ hpc' = "drain"
    /\ UNCHANGED <<pureVars, envMemoryId, b64Calls, globalVars, payload, session_id, actor_id, out, queue,
                   respVar, queueTask, waiting, readyTodo, agentVars>>

\* for ready_task in ready_tasks: ready_task == queue_task:
\* event = ready_task.result(); yield event
ForQueue ==
    /\ hpc = "for"
    /\ readyTodo # <<>> /\ Head(readyTodo) = "queue"
    /\ out' = Append(out, queueTask.item)
    /\ hpc' = "yield_queue"
    /\ UNCHANGED <<pureVars, envMemoryId, b64Calls, globalVars, payload, session_id, actor_id, queue,
                   respVar, queueTask, waiting, readyTodo, agentVars>>

\* After that yield: queue_task = asyncio.create_task(queue.get());
\* waiting.add(queue_task)
ResumeQueueYield ==
    /\ hpc = "yield_queue"
    /\ queueTask' = NewTask
    /\ waiting' = waiting \cup {"queue"}
    /\ readyTodo' = Tail(readyTodo)
    /\ hpc' = "for"
    /\ UNCHANGED <<pureVars, envMemoryId, b64Calls, globalVars, payload, session_id, actor_id, out, queue,
                   respVar, agentVars>>

\* an end of the for loop without the break: the loop ends only when
\* waiting is empty
ForEndNoBreak ==
    /\ hpc = "for"
    /\ readyTodo = <<>>
    /\ hpc' = IF waiting = {} THEN "completed" ELSE "wait"
    /\ UNCHANGED <<pureVars, envMemoryId, b64Calls, globalVars, payload, session_id, actor_id, out, queue,
                   respVar, queueTask, waiting, readyTodo, agentVars>>

\* The end of the for loop: break when response_task is None and the queue
\* is empty (queue_task is never None: queue.get() raises nothing), leave
\* the while loop when waiting is empty, else wait again
ForEnd ==
    /\ hpc = "for"
    /\ readyTodo = <<>>
    /\ hpc' = IF respVar = None /\ queue = <<>> THEN "completed"
              ELSE IF waiting = {} THEN "completed"
              ELSE "wait"
    /\ UNCHANGED <<pureVars, envMemoryId, b64Calls, globalVars, payload, session_id, actor_id, out, queue,
                   respVar, queueTask, waiting, readyTodo, agentVars>>

\* A step of the task of queue.get(): take the first item, or wait for one
QueueGetStep ==
    /\ HandlerSuspended
    /\ QueueTaskRunnable
    /\ IF queue = <<>>
       THEN queueTask' = [state |-> "blocked"] /\ queue' = queue
       ELSE queueTask' = [state |-> "done", item |-> Head(queue)] /\ queue' = Tail(queue)
    /\ UNCHANGED <<pureVars, envMemoryId, b64Calls, globalVars, payload, session_id, actor_id, handlerVars,
                   agentVars>>

---------------------------------------------------------------------------
(* The agent task: invoke_health_coach(query, session_id, actor_id, queue) *)

\* await queue.put(event) for each event of evs (the queue is unbounded:
\* put never waits)
Put(evs) ==
    /\ queue' = queue \o Tag(Len(pushed), evs)
    /\ pushed' = pushed \o Tag(Len(pushed), evs)

\* the text chunk a raw event carries, if any
RawChunk(raw) ==
    IF "str" \in DOMAIN raw THEN <<raw.str>>
    ELSE IF /\ "contentBlockDelta" \in DOMAIN raw.event
            /\ "text" \in DOMAIN raw.event.contentBlockDelta.delta
    THEN <<raw.event.contentBlockDelta.delta.text>>
    ELSE <<>>

\* whether a raw event starts a tool use, and the name it gives the tool
RawStartsTool(raw) ==
    /\ "event" \in DOMAIN raw
    /\ "contentBlockStart" \in DOMAIN raw.event
    /\ "toolUse" \in DOMAIN raw.event.contentBlockStart.start

RawToolName(raw) ==
    IF ~RawStartsTool(raw) THEN <<>>
    ELSE IF "name" \in DOMAIN raw.event.contentBlockStart.start.toolUse
    THEN <<raw.event.contentBlockStart.start.toolUse.name>>
    ELSE <<"unknown">>

\* The calls the repository's tests make: invoke_health_coach without a queue
DirectChoices == {<<S33, "u1">>, <<"invalid-session", "">>, <<S32, "u1">>, <<S33, "">>}

DirectCall(sid, aid) ==
    /\ hpc = "idle"
    /\ hpc' = "direct"
    /\ session_id' = sid
    /\ actor_id' = aid
    /\ hasQueue' = FALSE
    /\ apc' = "new"
    /\ UNCHANGED <<pureVars, envMemoryId, b64Calls, globalVars, payload, out, queue, respVar, queueTask,
                   waiting, readyTodo, text, exc, streamPos, pendingTool, pushed,
                   rawTexts, rawTools, memScope, usedTz, usedLang, credCalls, gwCalls>>

\* state = {"text": ""}; if queue: await send_event(queue, ..., "start")
AgentStart ==
    /\ HandlerSuspended
    /\ apc = "new"
    /\ text' = <<>>
    /\ Put(SendEvent(hasQueue, <<"Healthmate-CoachAI is starting">>, "start", None))
    /\ apc' = "create"
    /\ UNCHANGED <<pureVars, envMemoryId, b64Calls, globalVars, payload, session_id, actor_id, handlerVars,
                   queueTask, hasQueue, exc, streamPos, pendingTool, rawTexts, rawTools,
                   memScope, usedTz, usedLang, credCalls, gwCalls>>

\* AgentRaise that raises without the "error" progress event
AgentRaiseNoEvent(e) ==
    /\ UNCHANGED <<queue, pushed>>
    /\ exc' = e
    /\ apc' = "done_exc"

\* except Exception as e: send_event(queue, error_msg, "error"); raise
AgentRaise(e) ==
    /\ Put(SendEvent(hasQueue, <<"AgentCore Memory integration error: ", e>>, "error", None))
    /\ exc' = e
    /\ apc' = "done_exc"

\* agent = await _create_health_coach_agent_with_memory(session_id, actor_id)
AgentCreate(external) ==
    /\ HandlerSuspended
    /\ apc = "create"
    /\ LET r == CreateAgentWithMemory(session_id, actor_id, envMemoryId, curTz,
                                      curLang, external) IN
       /\ usedTz' = r.tz
       /\ usedLang' = r.lang
       /\ IF r.ok
          THEN /\ memScope' = r.scope
               /\ apc' = "streaming"
               /\ UNCHANGED <<queue, pushed, exc>>
          ELSE /\ AgentRaise(r.exc)
               /\ UNCHANGED memScope
    /\ UNCHANGED <<pureVars, envMemoryId, b64Calls, globalVars, payload, session_id, actor_id, handlerVars,
                   queueTask, hasQueue, text, streamPos, pendingTool, rawTexts,
                   rawTools, credCalls, gwCalls>>

\* async for event in agent.stream_async(query):
\*     await _extract_health_coach_events(queue, event, state)
AgentStreamEvent(raw) ==
    /\ HandlerSuspended
    /\ apc = "streaming"
    /\ ~pendingTool
    /\ streamPos < MaxStream
    /\ streamPos' = streamPos + 1
    /\ LET r == ExtractHealthCoachEvents(hasQueue, raw, text) IN
       /\ text' = r.text
       /\ Put(r.puts)
    /\ rawTexts' = rawTexts \o RawChunk(raw)
    /\ rawTools' = rawTools \o RawToolName(raw)
    /\ pendingTool' = RawStartsTool(raw)
    /\ UNCHANGED <<pureVars, envMemoryId, b64Calls, globalVars, payload, session_id, actor_id, handlerVars,
                   queueTask, apc, hasQueue, exc, memScope, usedTz, usedLang,
                   credCalls, gwCalls>>

\* The agent runs the tool the model asked for (list_health_tools or
\* health_manager_mcp): one credential acquisition, then one POST when a
\* token was acquired.  The tool returns a string to the agent either way.
AgentToolInvoke(acquired) ==
    /\ HandlerSuspended
    /\ apc = "streaming"
    /\ pendingTool
    /\ pendingTool' = FALSE
    /\ credCalls' = credCalls + 1
    /\ gwCalls' = IF acquired THEN gwCalls + 1 ELSE gwCalls
    /\ UNCHANGED <<pureVars, envMemoryId, b64Calls, globalVars, payload, session_id, actor_id, handlerVars,
                   queue, queueTask, apc, hasQueue, text, exc, streamPos, pushed,
                   rawTexts, rawTools, memScope, usedTz, usedLang>>

\* agent.stream_async raises
AgentStreamRaise ==
    /\ HandlerSuspended
    /\ apc = "streaming"
    /\ AgentRaise("stream")
    /\ UNCHANGED <<pureVars, envMemoryId, b64Calls, globalVars, payload, session_id, actor_id, handlerVars,
                   queueTask, hasQueue, text, streamPos, pendingTool, rawTexts,
                   rawTools, memScope, usedTz, usedLang, credCalls, gwCalls>>

\* The stream ends: send_event(queue, ..., "complete"); return state["text"]
AgentComplete ==
    /\ HandlerSuspended
    /\ apc = "streaming"
    /\ ~pendingTool
    /\ Put(SendEvent(hasQueue, <<"Healthmate-CoachAI completed its response">>, "complete", None))
    /\ apc' = "done_ok"
    /\ UNCHANGED <<pureVars, envMemoryId, b64Calls, globalVars, payload, session_id, actor_id, handlerVars,
                   queueTask, hasQueue, text, exc, streamPos, pendingTool, rawTexts,
                   rawTools, memScope, usedTz, usedLang, credCalls, gwCalls>>

---------------------------------------------------------------------------

Next ==
    \/ \E p \in Payloads : Invoke(p)
    \/ \E d \in DirectChoices : DirectCall(d[1], d[2])
    \/ ResumeLastYield
    \/ WaitReturn
    \/ ForResponse
    \/ DrainStep
    \/ ResumeDrainYield
    \/ ForQueue
    \/ ResumeQueueYield
    \/ ForEnd
    \/ QueueGetStep
    \/ AgentStart
    \/ \E external \in {"ok", "raise"} : AgentCreate(external)
    \/ \E raw \in RawEvents : AgentStreamEvent(raw)
    \/ \E acquired \in BOOLEAN : AgentToolInvoke(acquired)
    \/ AgentStreamRaise
    \/ AgentComplete

Spec == Init /\ [][Next]_vars

---------------------------------------------------------------------------
(* _decode_jwt_payload on synthetic tokens *)

\* base64.urlsafe_b64encode(bytes).rstrip("="): the characters of the bytes
RECURSIVE B64Chars(_)
B64Chars(bytes) ==
    IF bytes = <<>> THEN <<>>
    ELSE LET a == bytes[1]
             c1 == B64Alphabet[(a \div 4) + 1]
         IN IF Len(bytes) = 1 THEN <<c1, B64Alphabet[(a % 4) * 16 + 1]>>
            ELSE LET b == bytes[2]
                     c2 == B64Alphabet[(a % 4) * 16 + (b \div 16) + 1]
                 IN IF Len(bytes) = 2 THEN <<c1, c2, B64Alphabet[(b % 16) * 4 + 1]>>
                    ELSE LET c == bytes[3] IN
                         <<c1, c2, B64Alphabet[(b % 16) * 4 + (c \div 64) + 1],
                           B64Alphabet[(c % 64) + 1]>>
                         \o B64Chars(SubSeq(bytes, 4, Len(bytes)))

\* segments that no encoder made: the first characters of a segment
MaxGivenLen == 5
GivenSegments == {SubSeq(SEG_U1, 1, n) : n \in 0..MaxGivenLen}

TokenInit ==
    /\ envMemoryId = None
    /\ RequestInit
    /\ ToolIdle
    /\ ConfigIdle
    /\ TwoIdle
    /\ LegacyIdle
    /\ tokSeg = <<>> /\ tokPadded = <<>> /\ tokOut = EmptyDict
    /\ \/ tokPc = "object" /\ tokGiven = FALSE /\ tokObj \in JsonObjects
       \/ tokPc = "token" /\ tokGiven = TRUE /\ tokObj = EmptyDict

\* the object becomes the middle segment of a token: base64url, unpadded
EncodeToken ==
    /\ tokPc = "object"
    /\ tokSeg' = B64Chars(JsonDumps(tokObj))
    /\ tokPc' = "token"
    /\ UNCHANGED <<envMemoryId, b64Calls, globalVars, payload, session_id, actor_id,
                   handlerVars, queue, queueTask, agentVars, toolVars, cfgVars, twoVars, legVars, tokObj, tokGiven,
                   tokPadded, tokOut>>

\* a segment that was given is put in the token
GiveToken(seg) ==
    /\ tokPc = "token" /\ tokGiven /\ tokSeg = <<>> /\ tokPadded = <<>>
    /\ tokSeg' = seg
    /\ tokPc' = "given"
    /\ UNCHANGED <<envMemoryId, b64Calls, globalVars, payload, session_id, actor_id,
                   handlerVars, queue, queueTask, agentVars, toolVars, cfgVars, twoVars, legVars, tokObj, tokGiven,
                   tokPadded, tokOut>>

\* _decode_jwt_payload("h." + segment + ".s")
DecodeToken ==
    /\ tokPc \in {"token", "given"}
    /\ tokGiven => tokPc = "given"
    /\ tokPadded' = PadB64(tokSeg)
    /\ tokOut' = DecodeParts(<<"h", tokSeg, "s">>)
    /\ tokPc' = "decoded"
    /\ UNCHANGED <<envMemoryId, b64Calls, globalVars, payload, session_id, actor_id,
                   handlerVars, queue, queueTask, agentVars, toolVars, cfgVars, twoVars, legVars, tokObj, tokGiven, tokSeg>>

TokenNext ==
    \/ EncodeToken
    \/ \E seg \in GivenSegments : GiveToken(seg)
    \/ DecodeToken

SpecToken == TokenInit /\ [][TokenNext]_vars

---------------------------------------------------------------------------
(* One invocation of a tool *)

ToolNames == {"list_health_tools", "health_manager_mcp"}
ToolNameArgs == {"GetUser", "AddGoal"}

Method(name) == IF name = "list_health_tools" THEN "tools/list" ELSE "tools/call"

\* the tool's own part, given what _call_mcp_gateway_with_m2m did
ToolReturn(name, r) ==
    IF name = "list_health_tools" THEN ListHealthTools(r) ELSE HealthManagerMcp(r)

\* the tool runs for a request that stored the token of its user
ToolInit ==
    /\ envMemoryId = None
    /\ curJwt = T_U1 /\ curTz = None /\ curLang = None
    /\ NoRequest
    /\ TokenIdle
    /\ ToolIdle
    /\ ConfigIdle
    /\ TwoIdle
    /\ LegacyIdle

\* the agent calls the tool
ToolCall(name, tool_name) ==
    /\ toolPc = "off"
    /\ (name = "list_health_tools") <=> (tool_name = None)
    /\ toolPc' = "called"
    /\ toolName' = name
    /\ toolParams' = tool_name
    /\ UNCHANGED <<requestVars, tokenVars, cfgVars, twoVars, legVars, toolCred, toolHttp, gwOut, toolCreds,
                   toolPosts, toolSent, toolRet>>

\* get_mcp_client_from_gateway() of _call_mcp_gateway_with_m2m; when it
\* raises, the tool returns
AcquireCredential(cred) ==
    /\ toolPc = "called"
    /\ toolCred' = cred
    /\ toolCreds' = toolCreds + 1
    /\ IF GetMcpClientFromGateway(cred, GatewayId).raised
       THEN /\ toolPc' = "returned"
            /\ toolRet' = ToolReturn(toolName,
                   CallMcpGatewayWithM2M(Method(toolName), toolParams, cred,
                                         GatewayId, NoHttp))
       ELSE /\ toolPc' = "acquired"
            /\ toolRet' = toolRet
    /\ UNCHANGED <<requestVars, tokenVars, cfgVars, twoVars, legVars, toolName, toolParams, toolHttp, gwOut,
                   toolPosts, toolSent>>

\* _call_mcp_gateway with the token, and the rest of the tool
PostGateway(http) ==
    /\ toolPc = "acquired"
    /\ toolHttp' = http
    /\ toolPosts' = toolPosts + M2MPostCount(toolCred, GatewayId)
    /\ toolSent' = toolSent \o
          [i \in 1..M2MPostCount(toolCred, GatewayId) |->
             PostRequest(Method(toolName), toolParams, toolCred.access_token, curJwt,
                         GetGatewayEndpoint(GatewayId, envRegion))]
    /\ gwOut' = CallMcpGateway(Method(toolName), toolParams,
                               toolCred.access_token, GatewayId, http)
    /\ toolRet' = ToolReturn(toolName,
           CallMcpGatewayWithM2M(Method(toolName), toolParams, toolCred,
                                 GatewayId, http))
    /\ toolPc' = "returned"
    /\ UNCHANGED <<requestVars, tokenVars, cfgVars, twoVars, legVars, toolName, toolParams, toolCred, toolCreds>>

ToolNext ==
    \/ \E name \in ToolNames, tool_name \in ToolNameArgs \cup {None} :
          ToolCall(name, tool_name)
    \/ \E cred \in CredentialOutcomes : AcquireCredential(cred)
    \/ \E http \in HttpOutcomes : PostGateway(http)

SpecTool == ToolInit /\ [][ToolNext]_vars

---------------------------------------------------------------------------
(* The configuration of one process *)

MaxEnvChanges == 1

ProviderChoices == {None, ProviderName}
GatewayIdChoices == {None, " ", GatewayId, "gw-2"}
RegionChoices == {None, "", "ap-northeast-1"}

ConfigInit ==
    /\ envProvider \in ProviderChoices
    /\ envGatewayId \in GatewayIdChoices
    /\ envRegion \in RegionChoices
    /\ envMemoryId \in MemoryIdChoices
    /\ cfgPc = "boot"
    /\ Unresolved
    /\ RequestInit
    /\ TokenIdle
    /\ ToolIdle
    /\ TwoIdle
    /\ LegacyIdle

\* the module is imported: the try block of its top level
ModuleInit ==
    /\ cfgPc = "boot"
    /\ LET kept == ModuleInitialization(envProvider, envGatewayId) IN
       IF kept = Raised
       THEN cfgPc' = "aborted" /\ cfgKept' = None
       ELSE cfgPc' = "serving" /\ cfgKept' = kept
    /\ UNCHANGED <<requestVars, tokenVars, toolVars, twoVars, legVars, envProvider, envGatewayId,
                   envRegion, cfgReads, cfgCalls, cfgFirst, cfgSecond, cfgChanges,
                   cfgCheck>>

\* what a request resolves: _get_m2m_auth_config(), _get_gateway_endpoint()
\* and _get_memory_id()
ResolveConfiguration ==
    /\ cfgPc = "serving"
    /\ cfgCalls < 2
    /\ LET config == [provider_name |-> GetM2MAuthConfig(cfgKept, envProvider),
                      gateway_endpoint |-> GetGatewayEndpoint(envGatewayId, envRegion),
                      memory_id |-> GetMemoryId(envMemoryId)]
       IN /\ cfgFirst' = IF cfgCalls = 0 THEN config ELSE cfgFirst
          /\ cfgSecond' = IF cfgCalls = 1 THEN config ELSE cfgSecond
    /\ cfgReads' = [provider |-> cfgReads.provider + (IF cfgKept = None THEN 1 ELSE 0),
                    gateway |-> cfgReads.gateway + 1,
                    region |-> cfgReads.region + (IF Truthy(envGatewayId) THEN 1 ELSE 0),
                    memory |-> cfgReads.memory + 1]
    /\ cfgCalls' = cfgCalls + 1
    /\ UNCHANGED <<requestVars, tokenVars, toolVars, twoVars, legVars, envProvider, envGatewayId,
                   envRegion, cfgPc, cfgKept, cfgChanges, cfgCheck>>

\* os.environ is changed while the process serves
SetEnv(name, value) ==
    /\ cfgPc = "serving"
    /\ cfgChanges < MaxEnvChanges
    /\ envProvider' = IF name = "provider" THEN value ELSE envProvider
    /\ envGatewayId' = IF name = "gateway" THEN value ELSE envGatewayId
    /\ envRegion' = IF name = "region" THEN value ELSE envRegion
    /\ envMemoryId' = IF name = "memory" THEN value ELSE envMemoryId
    /\ <<envProvider', envGatewayId', envRegion', envMemoryId'>>
         # <<envProvider, envGatewayId, envRegion, envMemoryId>>
    /\ cfgChanges' = cfgChanges + 1
    /\ UNCHANGED <<runVars, tokenVars, toolVars, twoVars, legVars, cfgPc, cfgKept, cfgReads, cfgCalls,
                   cfgFirst, cfgSecond, cfgCheck>>

\* validate_environment_variables() of m2m_auth_config.py is called
CheckEnvironment ==
    /\ cfgPc \in {"boot", "serving"}
    /\ cfgCheck = <<"not called">>
    /\ cfgCheck' = ValidateEnvironmentVariables(envProvider, envGatewayId, envRegion,
                                                envMemoryId)
    /\ UNCHANGED <<requestVars, tokenVars, toolVars, twoVars, legVars, envProvider, envGatewayId,
                   envRegion, cfgPc, cfgKept, cfgReads, cfgCalls, cfgFirst, cfgSecond,
                   cfgChanges>>

ConfigNext ==
    \/ ModuleInit
    \/ ResolveConfiguration
    \/ \E value \in ProviderChoices : SetEnv("provider", value)
    \/ \E value \in GatewayIdChoices : SetEnv("gateway", value)
    \/ \E value \in RegionChoices : SetEnv("region", value)
    \/ \E value \in MemoryIdChoices : SetEnv("memory", value)
    \/ CheckEnvironment

SpecConfig == ConfigInit /\ [][ConfigNext]_vars

\* The event loop runs every task that has a step to take, and the caller
\* keeps asking for the next event.  Nothing is assumed of the agent beyond
\* its first step: how long the model streams is not the loop's to decide.
Fairness ==
    /\ WF_vars(ResumeLastYield)
    /\ WF_vars(WaitReturn)
    /\ WF_vars(ForResponse)
    /\ WF_vars(DrainStep)
    /\ WF_vars(ResumeDrainYield)
    /\ WF_vars(ForQueue)
    /\ WF_vars(ResumeQueueYield)
    /\ WF_vars(ForEnd)
    /\ WF_vars(QueueGetStep)
    /\ WF_vars(AgentStart)

SpecLive == Spec /\ Fairness

---------------------------------------------------------------------------
(* Vocabulary of the properties *)

\* invoke was called with a payload
Invoked == hpc \notin {"idle", "direct"}

HasKey(p, k) == k \in DOMAIN p.attrs

\* the sub claim a token carries, "" when it carries none
TokenSub(t) == IF t = T_U1 THEN "u1" ELSE IF t \in {T_U2, T_U2L} THEN "u2" ELSE ""

JwtMissing(p) == ~HasKey(p, "jwt_token") \/ p.attrs["jwt_token"] = ""
SessionMissing(p) == ~HasKey(p, "session_id")
SessionShort(p) == HasKey(p, "session_id") /\ Len(p.attrs["session_id"]) < MinSessionLen
SubMissing(p) == ~JwtMissing(p) /\ TokenSub(p.attrs["jwt_token"]) = ""

FailsValidator(p) == JwtMissing(p) \/ SessionMissing(p) \/ SessionShort(p) \/ SubMissing(p)

IsTextDelta(item) == "contentBlockDelta" \in DOMAIN item.ev.event

EventText(item) == item.ev.event.contentBlockDelta.delta.text

IsErrorText(item) ==
    /\ item.n = 0
    /\ IsTextDelta(item)
    /\ EventText(item)[1] = "error: "

IsProgress(item, stage) ==
    /\ "subAgentProgress" \in DOMAIN item.ev.event
    /\ item.ev.event.subAgentProgress.stage = stage

\* C1: a payload that fails a Validator rule gets exactly one text error
\* event and then the handler ends; no agent task, no MemoryScope, no call
\* of the credential acquirer or of the gateway; with jwt_token missing the
\* text of the event names jwt_token.
C1_RejectedDoesNothing ==
    (Invoked /\ FailsValidator(payload)) =>
        /\ hpc \in {"yield_rejected", "rejected"}
        /\ Len(out) = 1
        /\ IsErrorText(out[1])
        /\ apc = "none"
        /\ queueTask = NoTask
        /\ memScope = <<>>
        /\ credCalls = 0
        /\ gwCalls = 0
        /\ (~HasKey(payload, "jwt_token") => "jwt_token" \in SeqRange(EventText(out[1])))

C1_Witness ==
    /\ hpc = "rejected"
    /\ HasKey(payload, "jwt_token") /\ payload.attrs["jwt_token"] = T_U1
    /\ HasKey(payload, "session_id") /\ payload.attrs["session_id"] = S32
    /\ payload.prompt = "hi"

\* the positions of out that hold an event the handler built itself
OwnPositions == {i \in 1..Len(out) : out[i].n = 0}

\* the event pushed n-th was yielded to the caller
Forwarded(n) == \E i \in 1..Len(out) : out[i].n = n

AgentDone == apc \in {"done_ok", "done_exc"}

\* C2: when the agent task returned and the handler ended (Completed), the
\* queue is empty and every event put on the queue, whether queue.get() or
\* get_nowait took it off, was yielded to the caller.
C2_AllForwardedAtCompleted ==
    (hpc = "completed" /\ apc = "done_ok") =>
        /\ queue = <<>>
        /\ \A n \in 1..Len(pushed) : Forwarded(n)

\* C3: the queued events are yielded in the order they were put on the
\* queue: of two yielded events, the one put first is yielded first.
C3_ForwardedInPushOrder ==
    \A i, j \in 1..Len(out) :
        (i < j /\ out[i].n > 0 /\ out[j].n > 0) => out[i].n < out[j].n

\* C4: when invoke_health_coach raised, the handler ends only through the
\* except clause; it yields there exactly one text event of its own, the one
\* that reports the exception, nothing after it, and no event of its own on
\* the way to it.
C4_FailureYieldsOneErrorLast ==
    /\ (Invoked /\ apc = "done_exc" /\ HandlerEnded) => hpc = "failed"
    /\ (hpc \in {"yield_error", "failed"}) =>
          /\ apc = "done_exc"
          /\ out # <<>>
          /\ out[Len(out)] = Own(HandlerError(exc))
          /\ IsTextDelta(out[Len(out)])
          /\ OwnPositions = {Len(out)}
    /\ (Invoked /\ apc = "done_exc" /\ hpc \notin {"yield_error", "failed"}) =>
          OwnPositions = {}

C4_Witness ==
    /\ hpc = "failed"
    /\ exc = "stream"
    /\ Len(out) >= 2
    /\ out[Len(out)] = Own(HandlerError("stream"))

\* the error event of each Validator rule
RuleError(rule, p) ==
    CASE rule = 1 -> JwtMissingError
      [] rule = 2 -> SessionMissingError
      [] rule = 3 -> SessionLengthError(Len(p.attrs["session_id"]))
      [] rule = 4 -> SubError

\* the lowest-numbered rule p violates, with rule 2 read as "session_id is
\* a key of the payload" (0 when p violates none)
LowestViolatedLiteral(p) ==
    IF JwtMissing(p) THEN 1
    ELSE IF SessionMissing(p) THEN 2
    ELSE IF SessionShort(p) THEN 3
    ELSE IF SubMissing(p) THEN 4
    ELSE 0

\* the same with rule 2 read as "session_id is present and non-empty"
LowestViolated(p) ==
    IF JwtMissing(p) THEN 1
    ELSE IF SessionMissing(p) \/ p.attrs["session_id"] = "" THEN 2
    ELSE IF SessionShort(p) THEN 3
    ELSE IF SubMissing(p) THEN 4
    ELSE 0

\* C5 as stated: the rules are (1) jwt_token present and non-empty, (2)
\* session_id present, (3) session_id of length >= 33, (4) a non-empty sub;
\* the one error event is that of the lowest-numbered rule violated.
C5_LowestRuleAsStated ==
    (Invoked /\ FailsValidator(payload)) =>
        out[1] = Own(RuleError(LowestViolatedLiteral(payload), payload))

\* C5 amended: rule (2) is "session_id present and non-empty" (an empty
\* session_id is reported as missing, not as too short); the one error event
\* is that of the lowest-numbered rule violated, and when that rule is one
\* of (1)-(3) the token was not inspected: the request context the code
\* stores before it inspects the token is untouched.
C5_LowestRuleReported ==
    (Invoked /\ FailsValidator(payload)) =>
        /\ Len(out) = 1
        /\ out[1] = Own(RuleError(LowestViolated(payload), payload))
        /\ (LowestViolated(payload) < 4 => (curJwt = None /\ curTz = None /\ curLang = None))
        /\ (LowestViolated(payload) = 4 => curJwt = payload.attrs["jwt_token"])

C5_Witness ==
    /\ hpc = "rejected"
    /\ HasKey(payload, "jwt_token") /\ payload.attrs["jwt_token"] = T_NOSUB
    /\ HasKey(payload, "session_id") /\ payload.attrs["session_id"] = ""
    /\ out = <<Own(SessionMissingError)>>

\* C6: a handler that ended has yielded at least one event, whichever way
\* it ended: rejected, greeted (empty prompt), completed or failed.
C6_NeverEndsSilent ==
    HandlerEnded => Len(out) >= 1

C6_Witness ==
    /\ hpc = "failed"
    /\ out = <<Own(HandlerError(exc))>>

\* the most events one run puts on the queue: "start", one for each raw
\* event, and the terminal one
MaxPushed == MaxStream + 2

\* C7: under fair scheduling an event put on the queue while the agent task
\* runs is eventually yielded to the caller (the events a raising agent
\* leaves behind set aside: the handler's except clause ends the request).
C7_PushedEventuallyYielded ==
    \A n \in 1..MaxPushed :
        (Len(pushed) >= n) ~> (Forwarded(n) \/ apc = "done_exc")

\* C7, the part that holds whatever the agent does next: under fair
\* scheduling an event put on the queue is yielded to the caller, or the
\* agent task has ended; the handler holds no event back for as long as the
\* agent runs.
C7_YieldedWhileAgentRuns ==
    \A n \in 1..MaxPushed :
        (Len(pushed) >= n) ~> (Forwarded(n) \/ AgentDone)

\* the positions of pushed that hold a terminal progress event
TerminalPositions ==
    {i \in 1..Len(pushed) :
        IsProgress(pushed[i], "complete") \/ IsProgress(pushed[i], "error")}

\* C8: with a queue, the first event put is the progress event "start", put
\* before the construction of the agent begins; no terminal progress event
\* is put while the agent task runs; once it ended exactly one is, as the
\* last event put: "complete" when it returned, "error" when it raised.
C8_StartFirstOneTerminalLast ==
    hasQueue =>
        /\ (apc \in {"create", "streaming", "done_ok", "done_exc"}) =>
              (pushed # <<>> /\ IsProgress(pushed[1], "start"))
        /\ (apc = "create") =>
              (Len(pushed) = 1 /\ memScope = <<>> /\ usedTz = None)
        /\ (apc \in {"none", "new", "create", "streaming"}) => TerminalPositions = {}
        /\ (apc = "done_ok") =>
              (TerminalPositions = {Len(pushed)} /\ IsProgress(pushed[Len(pushed)], "complete"))
        /\ (apc = "done_exc") =>
              (TerminalPositions = {Len(pushed)} /\ IsProgress(pushed[Len(pushed)], "error"))

C8_Witness ==
    /\ hasQueue
    /\ apc = "done_exc"
    /\ exc = "stream"
    /\ Len(pushed) >= 3

IsToolUse(item) == IsProgress(item, "tool_use")

RECURSIVE Concat(_)
Concat(chunks) == IF chunks = <<>> THEN <<>> ELSE Head(chunks) \o Concat(Tail(chunks))

\* C9: state["text"], which invoke_health_coach returns, is the sequence of
\* the text chunks of the raw stream (plain strings and contentBlockDelta
\* texts) in stream order; with a queue the text events put are those chunks,
\* one each and in order, and the "tool_use" progress events put carry the
\* tool names of the contentBlockStart events with a toolUse, one each and
\* in order; without a queue nothing is put.
C9_TranscriptAndRelay ==
    /\ text = Concat(rawTexts)
    /\ hasQueue =>
          LET texts == SelectSeq(pushed, IsTextDelta)
              tools == SelectSeq(pushed, IsToolUse)
          IN /\ Len(texts) = Len(rawTexts)
             /\ \A i \in 1..Len(texts) : EventText(texts[i]) = rawTexts[i]
             /\ Len(tools) = Len(rawTools)
             /\ \A i \in 1..Len(tools) : tools[i].ev.event.subAgentProgress.tool_name = rawTools[i]
    /\ ~hasQueue => (pushed = <<>> /\ queue = <<>>)

C9_Witness ==
    /\ hasQueue
    /\ apc = "done_ok"
    /\ rawTexts = <<<<"b">>>>
    /\ rawTools = <<"GetUser">>

\* a payload that passes the Validator and has neither timezone nor
\* language runs with timezone "Asia/Tokyo" and language "ja"
DefaultsUsed ==
    (/\ Invoked
     /\ ~FailsValidator(payload)
     /\ ~HasKey(payload, "timezone") /\ ~HasKey(payload, "language"))
    => /\ hpc \notin {"yield_rejected", "rejected"}
       /\ curTz = "Asia/Tokyo" /\ curLang = "ja"
       /\ (apc \in {"streaming", "done_ok", "done_exc"} =>
             (usedTz = "Asia/Tokyo" /\ usedLang = "ja"))

\* C10 as stated: such a payload is accepted and runs with the defaults,
\* and of the fields of the request (prompt, session_id, jwt_token,
\* timezone, language) only timezone and language may be absent: a payload
\* without one of the other three is rejected.
C10_OnlyTimezoneLanguageOptional ==
    /\ DefaultsUsed
    /\ (Invoked /\ (\/ ~HasKey(payload, "jwt_token")
                    \/ ~HasKey(payload, "session_id")
                    \/ payload.prompt = Absent))
       => hpc \in {"yield_rejected", "rejected"}

\* C10 amended: such a payload is accepted and runs with the defaults; a
\* payload without jwt_token or without session_id is rejected; a payload
\* without prompt that passes the Validator is not rejected: it is answered
\* as an empty prompt is, by the greeting alone.
C10_DefaultsWhenAbsent ==
    /\ DefaultsUsed
    /\ (Invoked /\ (~HasKey(payload, "jwt_token") \/ ~HasKey(payload, "session_id")))
       => hpc \in {"yield_rejected", "rejected"}
    /\ (Invoked /\ ~FailsValidator(payload) /\ payload.prompt \in {Absent, ""})
       => (hpc \in {"yield_greeting", "greeted"} /\ out = <<Own(Greeting)>>)

C10_Witness ==
    /\ apc = "streaming"
    /\ Invoked
    /\ payload.prompt = "hi"
    /\ ~HasKey(payload, "timezone") /\ ~HasKey(payload, "language")
    /\ memScope # <<>>
    /\ usedTz = "Asia/Tokyo" /\ usedLang = "ja"

\* the tokens of the domain by what is wrong with them
NotThreeSegments == {T_TWOSEG, T_FOURSEG}
NoSubTokens == {T_NOSUB, T_EMPTYSUB}

\* the payload passes the rules on jwt_token and session_id
PassesFieldRules(p) == ~JwtMissing(p) /\ ~SessionMissing(p) /\ ~SessionShort(p)

\* C11: a token that does not have exactly 3 dot-separated segments fails
\* subject extraction with no base64 decode made; a 3-segment token whose
\* payload has no sub, or an empty one, fails it too; a request whose token
\* fails it is rejected with the error event of the sub and gets no actor
\* id (neither "" nor any stand-in), no agent and no MemoryScope.
C11_TokenFailuresRejected ==
    (Invoked /\ PassesFieldRules(payload)) =>
        LET t == payload.attrs["jwt_token"] IN
        /\ (t \in NotThreeSegments) => b64Calls = 0
        /\ (t \in NotThreeSegments \cup NoSubTokens \cup {T_NOTJSON}) =>
              /\ hpc \in {"yield_rejected", "rejected"}
              /\ out = <<Own(SubError)>>
              /\ actor_id = None
              /\ apc = "none"
              /\ memScope = <<>>
        /\ (t = T_U1) => b64Calls = 1

C11_Witness ==
    /\ hpc = "rejected"
    /\ PassesFieldRules(payload)
    /\ payload.attrs["jwt_token"] = T_FOURSEG
    /\ b64Calls = 0
    /\ out = <<Own(SubError)>>

\* C12: a JSON object encoded as unpadded base64url and placed as the
\* middle segment of a 3-part token is what _decode_jwt_payload returns;
\* the segment handed to the base64 decoder is the segment followed by "="
\* up to the least multiple of 4 that is >= its length, and the segment
\* itself when its length is a multiple of 4.
C12_RoundTrip ==
    (tokPc = "decoded") =>
        /\ ~tokGiven => tokOut = tokObj
        /\ Len(tokPadded) % 4 = 0
        /\ Len(tokPadded) - Len(tokSeg) \in 0..3
        /\ SubSeq(tokPadded, 1, Len(tokSeg)) = tokSeg
        /\ \A i \in (Len(tokSeg) + 1)..Len(tokPadded) : tokPadded[i] = "="

C12_Witness ==
    /\ tokPc = "decoded"
    /\ ~tokGiven
    /\ tokObj = [sub |-> "u1", iss |-> "x"]
    /\ tokOut = [sub |-> "u1", iss |-> "x"]
    /\ Len(tokSeg) % 4 = 2
    /\ Len(tokPadded) = Len(tokSeg) + 2

---------------------------------------------------------------------------
(* Gateway Client and tools *)

\* the POST of the invocation got an HTTP response
Responded == toolPc = "returned" /\ toolHttp.kind = "response"

\* the kind of the error _call_mcp_gateway raised: the head of its message
ErrorKind == gwOut.msg[1]

\* C13: the kind of the error the Gateway Client raises is a function of the
\* HTTP status alone: 401 the credential-rejected error, 403 the
\* insufficient-scope error whatever the body, 404 the not-found error, 500
\* and above the upstream error with the body, every other status but 200
\* the generic HTTP error with the status and the body.
C13_KindByStatusAlone ==
    (Responded /\ toolHttp.status # 200) =>
        /\ gwOut.raised
        /\ (toolHttp.status = 401) => ErrorKind = Status401Text
        /\ (toolHttp.status = 403) => ErrorKind = Status403Text
        /\ (toolHttp.status = 404) => ErrorKind = Status404Text
        /\ (toolHttp.status >= 500) =>
              /\ ErrorKind = Status5xxText
              /\ gwOut.msg = <<Status5xxText, ToString(toolHttp.status),
                               ResponseText(toolHttp)>>
        /\ (toolHttp.status \notin {401, 403, 404} /\ toolHttp.status < 500) =>
              /\ ErrorKind = HttpErrorText
              /\ gwOut.msg = <<HttpErrorText, ToString(toolHttp.status),
                               ResponseText(toolHttp)>>

\* C14: on status 200 a body with an error field raises the protocol error
\* that carries the payload of the field, any other body returns exactly
\* its result, and under no status is a response with an error field
\* returned as a success.
C14_ProtocolErrorOrResult ==
    (Responded /\ toolHttp.json) =>
        /\ ("error" \in DOMAIN toolHttp.body) => gwOut.raised
        /\ (toolHttp.status = 200 /\ "error" \in DOMAIN toolHttp.body) =>
              /\ ErrorKind = ProtocolErrorText
              /\ gwOut.msg[2] = toolHttp.body.error
        /\ (toolHttp.status = 200 /\ "error" \notin DOMAIN toolHttp.body) =>
              /\ ~gwOut.raised
              /\ gwOut.value = Get(toolHttp.body, "result", NoneValue)

\* the invocation failed: no credential, or the gateway call raised
ToolFailed ==
    /\ toolPc = "returned"
    /\ \/ toolHttp = NoHttp
       \/ gwOut.raised

ToolErrorTexts == {ToolListErrorText, McpCallErrorText}

\* C15: a tool returns a string and raises nothing, whatever the credential
\* acquisition and the gateway call come to, and what it returns after a
\* failure is an error string, not an empty or success-looking one.
C15_ToolsReturnErrorStrings ==
    (toolPc = "returned") =>
        /\ toolRet # <<>>
        /\ toolRet # <<Raised>>
        /\ ToolFailed <=> toolRet[1] \in ToolErrorTexts
        /\ ToolFailed => Len(toolRet) >= 2

C15_Witness ==
    /\ toolPc = "returned" /\ toolName = "list_health_tools"
    /\ toolHttp.kind = "timeout"
    /\ toolRet = <<ToolListErrorText, McpErrorText, TimeoutText, TransportDetail>>

\* C16: one invocation of a tool acquires the credential at most once and
\* POSTs at most once: nothing is tried again.
C16_NoRetry ==
    /\ toolCreds <= 1
    /\ toolPosts <= 1
    /\ (toolPc = "returned" /\ toolHttp # NoHttp) => toolCreds = 1 /\ toolPosts = 1
    /\ (toolPc = "returned" /\ toolHttp = NoHttp) => toolCreds = 1 /\ toolPosts = 0

C16_Witness ==
    /\ toolPc = "returned" /\ toolHttp.kind = "response" /\ toolHttp.status = 503
    /\ gwOut.raised /\ toolCreds = 1 /\ toolPosts = 1

---------------------------------------------------------------------------
(* Configuration Resolver *)

\* the environment is the one the process started with
EnvAsStarted == cfgChanges = 0

\* the resolution raised for one of the three required values
RaisedIn(config) ==
    \/ config.provider_name = Raised
    \/ config.gateway_endpoint = <<Raised>>
    \/ config.memory_id = Raised

\* C17: a missing provider name, gateway id or memory id fails the
\* initialization of the module: no process serves requests with one of them
\* missing, and no resolution during a request is the first to find it
\* missing.
C17_MissingFailsAtStartup ==
    (cfgPc = "serving" /\ EnvAsStarted) =>
        /\ Truthy(envProvider) /\ Truthy(envGatewayId) /\ Truthy(envMemoryId)
        /\ (cfgCalls >= 1) => ~RaisedIn(cfgFirst)

\* the values other than the region are set and valid
AllButRegionSet ==
    /\ envProvider = ProviderName
    /\ envGatewayId \in {GatewayId, "gw-2"}
    /\ GetMemoryId(envMemoryId) # Raised

\* C18: with AWS_REGION not set and the other values set, every check of
\* the configuration succeeds and the endpoint has the region us-west-2.
C18_RegionNeverRequired ==
    (envRegion = None /\ AllButRegionSet /\ EnvAsStarted) =>
        /\ cfgPc # "aborted"
        /\ cfgCheck \in {<<"not called">>, <<>>}
        /\ (cfgCalls >= 1) =>
              /\ ~RaisedIn(cfgFirst)
              /\ cfgFirst.gateway_endpoint[4] = DefaultRegion

\* C19: two resolutions in one process return the same values and look
\* each name up in the environment at most once, whatever becomes of the
\* environment between them.
C19_ResolutionCached ==
    /\ \A name \in DOMAIN cfgReads : cfgReads[name] <= 1
    /\ (cfgCalls = 2) => cfgSecond = cfgFirst

---------------------------------------------------------------------------
(* MemoryScope *)

\* invoke_health_coach is past _create_health_coach_agent_with_memory
PastCreate == apc \in {"streaming", "done_ok", "done_exc"}

\* one of the checks of the memory id, the session id and the actor id fails
ScopeCheckFails ==
    \/ GetMemoryId(envMemoryId) = Raised
    \/ IsBlank(envMemoryId) \/ Len(envMemoryId) < MinMemoryIdLen
    \/ ~Truthy(session_id) \/ IsBlank(session_id) \/ Len(session_id) < MinSessionLen
    \/ ~Truthy(actor_id) \/ IsBlank(actor_id)

\* the agent was built: its stream was started, or is about to be
AgentBuilt == apc \in {"streaming", "done_ok"} \/ streamPos > 0

\* C20: an AgentCoreMemoryConfig that was constructed has a memory_id that
\* is not blank and of 10 characters or more, a session_id that is not blank
\* and of 33 characters or more, and an actor_id that is not blank; when one
\* of these checks fails the construction of the agent raises, and no memory
\* config, session manager or agent is made.
C20_MemoryScopeValid ==
    /\ (memScope # <<>>) =>
          /\ ~IsBlank(memScope[1]) /\ Len(memScope[1]) >= MinMemoryIdLen
          /\ ~IsBlank(memScope[2]) /\ Len(memScope[2]) >= MinSessionLen
          /\ memScope[3] # None /\ ~IsBlank(memScope[3])
          /\ memScope = <<envMemoryId, session_id, actor_id>>
    /\ (PastCreate /\ ScopeCheckFails) =>
          /\ memScope = <<>>
          /\ ~AgentBuilt
          /\ apc = "done_exc" /\ exc \in {"memory_id", "memory_config"}
    /\ AgentBuilt => memScope # <<>>

C20_Witness ==
    /\ apc = "done_exc" /\ exc = "memory_config"
    /\ session_id = B33 /\ actor_id = "u1" /\ envMemoryId = "memory-0123456789"
    /\ memScope = <<>> /\ streamPos = 0

---------------------------------------------------------------------------
(* invoke_health_coach called directly *)

\* the memory scope handed to invoke_health_coach is invalid
InvalidScope == Len(session_id) < MinSessionLen \/ actor_id = ""

\* C21: invoke_health_coach called with a session_id of fewer than 33
\* characters or an empty actor_id, or both, ends by returning a response
\* string and raises nothing to its caller (the memory id of the
\* environment being valid).
C21_InvalidScopeReturns ==
    (hpc = "direct" /\ InvalidScope /\ GetMemoryId(envMemoryId) # Raised /\ AgentDone) =>
        /\ apc = "done_ok"
        /\ exc = None

---------------------------------------------------------------------------
(* M2MCredential *)

\* the tokens the acquirer hands over in the model
AccessTokens ==
    {cred.access_token : cred \in {c \in CredentialOutcomes : c.kind = "token"}}

\* the invocation returned after it had acquired a token
ReturnedWithToken ==
    toolPc = "returned" /\ toolCred.kind = "token" /\ Truthy(toolCred.access_token)

\* what the tool returns where the acquirer hands over other and all else
\* is as in this invocation
ReturnWith(other) ==
    ToolReturn(toolName,
        CallMcpGatewayWithM2M(Method(toolName), toolParams,
            [kind |-> "token", access_token |-> other], GatewayId, toolHttp))

\* C22: the access token is not exposed to the caller: what a tool returns
\* is the same for any other value of the acquired token, all else equal,
\* and the token is no part of it; the token is in the Authorization header
\* of the request.
C22_TokenNotExposed ==
    ReturnedWithToken =>
        /\ \A other \in AccessTokens \ {""} : ReturnWith(other) = toolRet
        /\ \A i \in 1..Len(toolRet) : toolRet[i] \notin AccessTokens \ {""}
        /\ \A i \in 1..Len(toolSent) :
              toolSent[i].Authorization = <<"Bearer ", toolCred.access_token>>

C22_Witness ==
    /\ ReturnedWithToken /\ toolCred.access_token = "tok-2"
    /\ toolHttp.kind = "response" /\ toolHttp.status = 401
    /\ toolRet = ReturnWith("tok-1")
    /\ toolRet = <<McpCallErrorText, McpErrorText, Status401Text>>
    /\ Len(toolSent) = 1

\* C23: a POST to the gateway comes after a credential acquisition of the
\* same invocation and carries the token of that acquisition as its bearer,
\* never the jwt_token of the user; when the acquirer hands over no token or
\* an empty one, the call fails and nothing is POSTed.
C23_BearerIsAcquiredToken ==
    /\ (toolSent # <<>>) =>
          /\ toolCreds >= 1
          /\ toolCred.kind = "token" /\ Truthy(toolCred.access_token)
          /\ \A i \in 1..Len(toolSent) :
                /\ toolSent[i].Authorization = <<"Bearer ", toolCred.access_token>>
                /\ toolSent[i].Authorization # <<"Bearer ", curJwt>>
    /\ (toolPc = "returned" /\ ~ReturnedWithToken) =>
          /\ toolSent = <<>> /\ toolPosts = 0
          /\ toolRet[1] \in ToolErrorTexts

C23_Witness ==
    /\ toolPc = "returned" /\ toolCred = [kind |-> "token", access_token |-> ""]
    /\ toolSent = <<>> /\ toolCreds = 1
    /\ toolRet = <<ToolListErrorText, TokenErrorText, ClientCreationText,
                   NoTokenFromDecoratorText>>

---------------------------------------------------------------------------
(* The two paths off the queue *)

\* the handler is in its loop (Running)
Running == hpc \in {"wait", "for", "drain", "yield_drain", "yield_queue"}

\* C24: an event yielded while the request runs was put on the queue of the
\* request by the relay, and an event put on the queue is yielded at most
\* once, whether the queue.get() task or get_nowait took it off; the events
\* the handler makes itself are not yielded while the request runs.
C24_NoDuplicateNoFabrication ==
    /\ \A i \in 1..Len(out) :
          (out[i].n > 0) =>
              /\ out[i].n <= Len(pushed)
              /\ pushed[out[i].n] = out[i]
    /\ \A i, j \in 1..Len(out) :
          (i < j /\ out[i].n > 0) => out[i].n # out[j].n
    /\ Running => \A i \in 1..Len(out) : out[i].n > 0

\* the drain took events off the queue while the queue.get() task held the
\* first one, which is yielded after them
C24_Witness ==
    /\ hpc = "yield_queue"
    /\ Len(out) = 3
    /\ out[3].n = 1 /\ out[1].n = 2 /\ out[2].n = 3
    /\ queue = <<>>

---------------------------------------------------------------------------
(* Termination of the handler *)

\* C25: once the agent task has finished, by returning or by raising, the
\* handler ends, the tasks and the caller being scheduled fairly: it does not
\* wait for ever in asyncio.wait on a queue.get() that nothing will satisfy.
C25_HandlerTerminates == (Invoked /\ AgentDone) ~> HandlerEnded

\* the agent returned no text and the handler ended with the three events
\* of the queue forwarded, the last ones by queue.get() after the agent's end
C25_Witness ==
    /\ hpc = "completed" /\ apc = "done_ok" /\ text = <<>>
    /\ queueTask.state = "blocked"
    /\ Len(out) = 3

---------------------------------------------------------------------------
(* Two requests handled by one process *)

\* the payloads of the two requests: a prompt, a session_id of 33 characters,
\* and each its own token, timezone and language
TwoPayloads ==
    { [prompt |-> "hi",
       attrs  |-> Field("jwt_token", j) @@ Field("session_id", S33)
                  @@ Field("timezone", tz) @@ Field("language", l)] :
        j \in {T_U1, T_U2, T_NOSUB}, tz \in TimezoneChoices, l \in LanguageChoices }

TwoInit ==
    /\ envMemoryId \in MemoryIdChoices
    /\ RequestInit
    /\ TokenIdle
    /\ ToolIdle
    /\ ConfigIdle
    /\ TwoIdle
    /\ LegacyIdle

\* invoke(payload) of request r up to its first suspension: the three
\* module globals are assigned from the payload, actor_id is taken from the
\* token just stored, and the agent task is created with session_id and
\* actor_id as arguments
Arrive(r, p) ==
    /\ reqPc[r] = "off"
    /\ reqPayload' = [reqPayload EXCEPT ![r] = p]
    /\ LET v == ValidateRequest(p)
           prompt == IF p.prompt = Absent THEN "" ELSE p.prompt
       IN
       /\ IF v.stored
          THEN /\ curJwt' = v.jwt /\ curTz' = v.tz /\ curLang' = v.lang
               /\ b64Calls' = b64Calls + DecodeJwtCalls(v.jwt)
          ELSE UNCHANGED <<globalVars, b64Calls>>
       /\ IF ~v.ok
          THEN /\ reqPc' = [reqPc EXCEPT ![r] = "rejected"]
               /\ UNCHANGED reqArgs
          ELSE IF ~Truthy(prompt)
          THEN /\ reqPc' = [reqPc EXCEPT ![r] = "greeted"]
               /\ UNCHANGED reqArgs
          ELSE /\ reqPc' = [reqPc EXCEPT ![r] = "wait"]
               /\ reqArgs' = [reqArgs EXCEPT ![r] = <<v.session_id, v.actor_id>>]
    /\ UNCHANGED <<envMemoryId, payload, hpc, session_id, actor_id, out, queue,
                   respVar, queueTask, waiting, readyTodo, agentVars, tokenVars,
                   toolVars, cfgVars, legVars, reqUsed>>

\* the agent task of request r runs while the handlers are suspended:
\* _create_health_coach_agent_with_memory(session_id, actor_id) reads the
\* module globals of timezone and language as they are now
ConstructAgent(r, external) ==
    /\ reqPc[r] = "wait"
    /\ LET res == CreateAgentWithMemory(reqArgs[r][1], reqArgs[r][2], envMemoryId,
                                        curTz, curLang, external) IN
       /\ reqUsed' = [reqUsed EXCEPT ![r] =
             [tz |-> res.tz, lang |-> res.lang,
              scope |-> IF res.ok THEN res.scope ELSE <<>>]]
       /\ reqPc' = [reqPc EXCEPT ![r] = IF res.ok THEN "streaming" ELSE "failed"]
    /\ UNCHANGED <<requestVars, tokenVars, toolVars, cfgVars, legVars, reqPayload, reqArgs>>

TwoNext ==
    \/ \E r \in Requests, p \in TwoPayloads : Arrive(r, p)
    \/ \E r \in Requests, external \in {"ok", "unavailable"} : ConstructAgent(r, external)

SpecTwo == TwoInit /\ [][TwoNext]_vars

\* the agent of request r was constructed
Constructed(r) == reqPc[r] = "streaming"

\* the actor id bound to the MemoryScope of r is the sub of r's own token
OwnActor(r) ==
    reqUsed[r].scope[3] = TokenSub(reqPayload[r].attrs["jwt_token"])

\* the timezone and language read at r's agent construction are those of
\* r's payload, the defaults when the payload has none
OwnLocale(r) ==
    /\ reqUsed[r].tz = Get(reqPayload[r].attrs, "timezone", "Asia/Tokyo")
    /\ reqUsed[r].lang = Get(reqPayload[r].attrs, "language", "ja")

\* C26: with two requests handled concurrently, the actor id bound to the
\* MemoryScope of a request is the sub of its own jwt_token, and the timezone
\* and language read at its agent construction are those of its own payload.
C26_OwnContext ==
    \A r \in Requests : Constructed(r) => OwnActor(r) /\ OwnLocale(r)

---------------------------------------------------------------------------
(* The health_coach_ai variant: requests one after another *)

MaxLegacyRequests == 2
MaxLegacyCalls == 1

\* search_jwt_recursive keeps a str under a key jwt_token only when it is
\* longer than this
MinSearchLen == 50

\* a payload of the variant: its prompt and the three places the handler looks
\* for jwt_token in (payload, payload["input"],
\* payload["sessionState"]["sessionAttributes"]), Absent where the key is not
\* there.  At most one place holds a token longer than MinSearchLen, so the
\* order of the keys does not matter to the recursive search.
LegacyPayloads ==
    { [prompt |-> q, top |-> a, input |-> b, session |-> c] :
        q \in {"", "hi"}, a \in {Absent, "", T_U1}, b \in {Absent, T_U2},
        c \in {Absent, T_U2L} }

\* search_jwt_recursive(payload)
SearchJwtRecursive(p) ==
    LET Long(v) == v # Absent /\ Len(v) > MinSearchLen IN
    IF Long(p.top) THEN p.top
    ELSE IF Long(p.input) THEN p.input
    ELSE IF Long(p.session) THEN p.session
    ELSE None

\* the token invoke finds in the payload: the if/elif chain over the three
\* places, then the recursive search when the chain gave nothing
LegacyFindJwt(p) ==
    LET jwt_token_from_payload ==
            IF p.top # Absent THEN p.top
            ELSE IF p.input # Absent THEN p.input
            ELSE IF p.session # Absent THEN p.session
            ELSE None
    IN  IF ~Truthy(jwt_token_from_payload) THEN SearchJwtRecursive(p)
        ELSE jwt_token_from_payload

\* _get_user_id_from_jwt: payload.get('sub') of the token _get_jwt_token gives
LegacyGetUserIdFromJwt(current) ==
    LET jwt_token == GetJwtToken(current) IN
    IF ~Truthy(jwt_token) THEN None
    ELSE Get(DecodeJwtPayload(jwt_token), "sub", None)

LegacyInit ==
    /\ envMemoryId = None
    /\ RequestInit
    /\ TokenIdle
    /\ ToolIdle
    /\ ConfigIdle
    /\ TwoIdle
    /\ LegacyIdle

LegacyRequest(found) ==
    [found |-> found, greeted |-> FALSE, created |-> FALSE, user_id |-> None,
     calls |-> 0, bearers |-> <<>>]

\* the request under way
Current == legLog[Len(legLog)]

\* invoke(payload): the token of the payload replaces the module global only
\* when one was found; an empty prompt is answered with the greeting
LegacyInvoke(p) ==
    /\ legPc = "idle"
    /\ Len(legLog) < MaxLegacyRequests
    /\ LET jwt_token_from_payload == LegacyFindJwt(p) IN
       /\ legJwt' = IF Truthy(jwt_token_from_payload) THEN jwt_token_from_payload
                    ELSE legJwt
       /\ IF ~Truthy(p.prompt)
          THEN /\ legLog' = Append(legLog,
                    [LegacyRequest(jwt_token_from_payload) EXCEPT !.greeted = TRUE])
               /\ legPc' = "idle"
          ELSE /\ legLog' = Append(legLog, LegacyRequest(jwt_token_from_payload))
               /\ legPc' = "agent"
    /\ UNCHANGED <<requestVars, tokenVars, toolVars, cfgVars, twoVars>>

\* _create_health_coach_agent: user_id goes into the system prompt
LegacyCreateAgent ==
    /\ legPc = "agent"
    /\ legLog' = [legLog EXCEPT ![Len(legLog)] =
          [@ EXCEPT !.created = TRUE, !.user_id = LegacyGetUserIdFromJwt(legJwt)]]
    /\ legPc' = "streaming"
    /\ UNCHANGED <<requestVars, tokenVars, toolVars, cfgVars, twoVars, legJwt>>

\* _call_mcp_gateway of the variant: raises before the POST without a token,
\* POSTs with "Bearer " + the token otherwise
LegacyCallGateway ==
    /\ legPc = "streaming"
    /\ Current.calls < MaxLegacyCalls
    /\ LET jwt_token == GetJwtToken(legJwt) IN
       legLog' = [legLog EXCEPT ![Len(legLog)] =
          [@ EXCEPT !.calls = @ + 1,
                    !.bearers = IF ~Truthy(jwt_token) THEN @ ELSE Append(@, jwt_token)]]
    /\ UNCHANGED <<requestVars, tokenVars, toolVars, cfgVars, twoVars, legJwt, legPc>>

\* the stream ends and the handler returns
LegacyFinish ==
    /\ legPc = "streaming"
    /\ legPc' = "idle"
    /\ UNCHANGED <<requestVars, tokenVars, toolVars, cfgVars, twoVars, legJwt, legLog>>

LegacyNext ==
    \/ \E p \in LegacyPayloads : LegacyInvoke(p)
    \/ LegacyCreateAgent
    \/ LegacyCallGateway
    \/ LegacyFinish

SpecLegacy == LegacyInit /\ [][LegacyNext]_vars

\* request k carried no jwt_token and an earlier request j carried one
StaleFor(j, k) ==
    /\ j < k
    /\ Truthy(legLog[j].found)
    /\ ~Truthy(legLog[k].found)

\* C27: in the health_coach_ai variant a request without jwt_token never acts
\* with the identity of a previous request: the token of an earlier request is
\* used neither to derive its user id nor as its bearer credential.
C27_NoStaleIdentity ==
    \A j, k \in DOMAIN legLog :
        StaleFor(j, k) =>
            /\ legLog[k].user_id # TokenSub(legLog[j].found)
            /\ legLog[j].found \notin SeqRange(legLog[k].bearers)

---------------------------------------------------------------------------
(* The request context and rejected requests *)

Rejected == hpc \in {"yield_rejected", "rejected"}

\* the process-wide request context is as it was before the request
ContextUntouched == curJwt = None /\ curTz = None /\ curLang = None

\* C28: a request that ends in Rejected leaves _current_jwt_token,
\* _current_timezone and _current_language as they were before it.
C28_RejectedKeepsContext == Rejected => ContextUntouched

---------------------------------------------------------------------------
(* The tasks the handler leaves behind *)

\* the handler came to its end through the fan-in loop
Terminated == hpc \in {"completed", "failed"}

\* the task is finished or cancelled, or was never created
QueueTaskSettled == queueTask.state \in {"none", "done", "cancelled"}
AgentTaskSettled == apc \in {"none", "done_ok", "done_exc", "cancelled"}

\* C29: when the handler terminates (Completed or Failed), the last
\* resubmitted queue.get task and the agent task are finished or cancelled.
C29_NoPendingTask == Terminated => (QueueTaskSettled /\ AgentTaskSettled)

---------------------------------------------------------------------------
(* The greeting *)

NoPrompt(p) == p.prompt = Absent \/ p.prompt = ""

\* the handler started nothing: no queue, no agent task, no queue.get task, no
\* MemoryScope, no call of the credential acquirer or of the gateway
NothingStarted ==
    /\ hasQueue = FALSE /\ queue = <<>>
    /\ apc = "none" /\ respVar = None
    /\ queueTask = NoTask /\ waiting = {}
    /\ memScope = <<>>
    /\ credCalls = 0 /\ gwCalls = 0

\* C30: a payload that passes the four Validator rules and has an empty or
\* missing prompt gets exactly one text event, the greeting, and the handler
\* ends having started nothing; a payload that fails a rule and has no prompt
\* gets the validation error, not the greeting.
C30_GreetingAfterValidation ==
    (Invoked /\ NoPrompt(payload)) =>
        /\ Len(out) = 1
        /\ NothingStarted
        /\ IF FailsValidator(payload)
           THEN IsErrorText(out[1]) /\ hpc \in {"yield_rejected", "rejected"}
           ELSE out[1] = Own(Greeting) /\ hpc \in {"yield_greeting", "greeted"}

C30_Witness ==
    /\ hpc = "greeted"
    /\ ~FailsValidator(payload)
    /\ payload.prompt = ""
    /\ out = <<Own(Greeting)>>

====
